---- MODULE Spec2Model ----
(***************************************************************************)
(* A model of the dot-block DNS forwarder: the request dispatcher          *)
(* (forwarder.DNSDispatcher), the bloom-filter blocklist it consults and   *)
(* the expirable LRU cache it fills; the blocklist under concurrent Load   *)
(* and IsBlocked calls; the round-robin upstream client; the Space-Saving  *)
(* heavy-hitter tracker, alone, under concurrent Add calls and read by     *)
(* TopN and the stats callback; the unique-client sketch.                  *)
(*                                                                         *)
(* Strings that the code inspects byte by byte (domain names, cache keys)  *)
(* are sequences of one-character strings, so that trimming a dot,         *)
(* appending a dot or comparing two spellings is computed, not assumed.    *)
(***************************************************************************)
EXTENDS Integers, Sequences, FiniteSets, TLC

VARIABLES
    bloomFilter,   \* BlockList.bloomFilter: the strings TestString answers true for
    cache,         \* DNSDispatcher.cache: entries, most recently used first
    clock,         \* time.Now(), in whole seconds
    last,          \* what the most recent HandleDNSRequest call did (its effects)
    mutex,         \* BlockList.mutex: the readers holding it, and whether a writer does
    loader,        \* the goroutine that runs BlockList.Load
    readers,       \* the goroutines that run BlockList.IsBlocked
    client,        \* RoundRobinClient.counter and the upstreams it selected
    ss,            \* a SpaceSaver and the Add calls made on it
    mu,            \* SpaceSaver.mu: the goroutine that holds it (0: none)
    workers,       \* the goroutines that call SpaceSaver.Add concurrently
    scrape,        \* the latest TopN or stats-callback call and what it returned
    sketch,        \* DnsMetrics.UniqueClients and the goroutines calling into it
    reaperCalls,   \* DnsMetrics.CacheReaperCalls
    updater        \* the latest BlocklistUpdater.Run: what Fetch returned, the filter before

dispatcherVars == <<cache, clock, last>>
blockListVars == <<mutex, loader, readers>>
metricsVars == <<mu, workers, scrape, sketch>>
cronVars == <<reaperCalls, updater>>
vars == <<bloomFilter, cache, clock, last, mutex, loader, readers, client, ss, mu, workers,
          scrape, sketch, reaperCalls, updater>>

---------------------------------------------------------------------------
(* Bounds of the model *)

MaxQuestions == 2      \* questions per request
MaxClock == 2          \* seconds the clock may advance
MaxKeys == 1           \* the maxSize handed to NewDNSDispatcher
MaxUpstreams == 3      \* upstreams handed to NewRoundRobinClient
MaxCalls == 30         \* Exchange calls followed in one behaviour
MaxNearWrap == 2       \* how far below 2^32 a long-running counter is picked up
MaxConcurrentCalls == 5  \* Exchange calls made by the concurrent callers
MaxReaperRuns == 2     \* runs of the cache reaper followed in one behaviour
MaxCapacity == 2       \* the k handed to NewSpaceSaver
MaxAdds == 5           \* SpaceSaver.Add calls followed in one behaviour

---------------------------------------------------------------------------
(* Constants of the program and of the DNS library it uses *)

TypeA == 1
TypeCNAME == 5
TypeSOA == 6
ClassINET == 1

RcodeSuccess == 0
RcodeServerFailure == 2
RcodeNameError == 3
RcodeRefused == 5

DefaultTTL == 300
\* expirable-cache: the cache-wide TTL of a cache built without WithTTL (ten years)
NoEvictionTTL == 315360000

\* dns.TypeToString: a type without an entry maps to the empty string
TypeToString(t) ==
    CASE t = TypeA -> <<"A">>
      [] t = TypeCNAME -> <<"C", "N", "A", "M", "E">>
      [] t = TypeSOA -> <<"S", "O", "A">>
      [] OTHER -> <<>>

\* dns.RcodeToString
RcodeToString(r) ==
    CASE r = RcodeSuccess -> "NOERROR"
      [] r = RcodeServerFailure -> "SERVFAIL"
      [] r = RcodeNameError -> "NXDOMAIN"
      [] r = RcodeRefused -> "REFUSED"
      [] OTHER -> ""

---------------------------------------------------------------------------
(* Strings *)

Last(s) == s[Len(s)]
Front(s) == SubSeq(s, 1, Len(s) - 1)

HasPrefix(s, p) == Len(p) <= Len(s) /\ SubSeq(s, 1, Len(p)) = p
HasSuffix(s, p) == Len(p) <= Len(s) /\ SubSeq(s, Len(s) - Len(p) + 1, Len(s)) = p
Contains(s, p) == \E i \in 1..(Len(s) - Len(p) + 1) : SubSeq(s, i, i + Len(p) - 1) = p

\* strings.LastIndex(s, "."), 1-based; 0 when there is none
LastDot(s) ==
    LET dots == {i \in 1..Len(s) : s[i] = "."}
    IN  IF dots = {} THEN 0 ELSE CHOOSE i \in dots : \A j \in dots : j <= i

\* strings.CutSuffix(fqdn, ".")
CutSuffixDot(s) == IF HasSuffix(s, <<".">>) THEN Front(s) ELSE s

\* dns.IsFqdn: a trailing dot that is not escaped by an odd run of backslashes
IsFqdn(s) ==
    IF s = <<>> \/ Last(s) # "." THEN FALSE
    ELSE LET t == Front(s)
         IN  IF t = <<>> \/ Last(t) # "\\" THEN TRUE
             ELSE LET others == {i \in 1..Len(t) : t[i] # "\\"}
                      i == IF others = {} THEN 0
                           ELSE CHOOSE k \in others : \A j \in others : j <= k
                  IN  (Len(t) - (i - 1)) % 2 # 0

\* dns.Fqdn
Fqdn(s) == IF IsFqdn(s) THEN s ELSE s \o <<".">>

---------------------------------------------------------------------------
(* Domain names of the model *)

NameAds      == <<"a", ".", "c", ".">>         \* a.c.   (on the block list)
NameAdsUpper == <<"A", ".", "c", ".">>         \* A.c.   (the same name, other case)
NameEscaped  == <<"b", "\\", ".", ".">>        \* b\..   (one label "b.", legal on the wire)
NameTarget   == <<"t", ".", "c", ".">>         \* t.c.   (a CNAME target upstream)

Names == {NameAds, NameAdsUpper, NameEscaped}

\* The public suffix list: the rules besides the default rule "*"
PSLRules == {<<"c">>, <<"s", ".", "c">>}

---------------------------------------------------------------------------
(* Blocklist: src/internal/blocklist/blocklist.go *)

ErrNone == ""
ErrEmptyLabel == "publicsuffix: empty label in domain"
ErrCannotDerive == "publicsuffix: cannot derive eTLD+1 for domain"
ErrInvalidSuffix == "publicsuffix: invalid public suffix"

\* publicsuffix.PublicSuffix: the longest rule that is a whole-label suffix of
\* the domain, and the last label (the default rule) when no rule matches
PublicSuffix(domain) ==
    LET starts == {1} \cup {i + 1 : i \in {j \in 1..Len(domain) : domain[j] = "."}}
        matches == {i \in starts : SubSeq(domain, i, Len(domain)) \in PSLRules}
    IN  IF matches # {}
        THEN SubSeq(domain, CHOOSE i \in matches : \A j \in matches : i <= j, Len(domain))
        ELSE SubSeq(domain, LastDot(domain) + 1, Len(domain))

\* publicsuffix.EffectiveTLDPlusOne
EffectiveTLDPlusOne(domain) ==
    IF HasPrefix(domain, <<".">>) \/ HasSuffix(domain, <<".">>) \/ Contains(domain, <<".", ".">>)
    THEN [apex |-> <<>>, err |-> ErrEmptyLabel]
    ELSE LET suffix == PublicSuffix(domain)
             i == Len(domain) - Len(suffix)      \* 1-based position just before the suffix
         IN  IF Len(domain) <= Len(suffix)
             THEN [apex |-> <<>>, err |-> ErrCannotDerive]
             ELSE IF domain[i] # "."
             THEN [apex |-> <<>>, err |-> ErrInvalidSuffix]
             ELSE [apex |-> SubSeq(domain, LastDot(SubSeq(domain, 1, i - 1)) + 1, Len(domain)),
                   err |-> ErrNone]

\* bloom.BloomFilter.TestString
TestString(bf, s) == s \in bf

\* IsBlocked without the test of the apex domain
IsBlockedExactOnly(bf, fqdn) ==
    [blocked |-> TestString(bf, CutSuffixDot(fqdn)), err |-> ErrNone]

\* IsBlocked returning every error of EffectiveTLDPlusOne
IsBlockedAllErrors(bf, fqdn) ==
    LET domain == CutSuffixDot(fqdn)
    IN  IF TestString(bf, domain)
        THEN [blocked |-> TRUE, err |-> ErrNone]
        ELSE LET r == EffectiveTLDPlusOne(domain)
             IN  IF r.err # ErrNone
                 THEN [blocked |-> FALSE, err |-> r.err]
                 ELSE [blocked |-> TestString(bf, r.apex), err |-> ErrNone]

\* BlockList.IsBlocked
IsBlocked(bf, fqdn) ==
    LET domain == CutSuffixDot(fqdn)
    IN  IF TestString(bf, domain)
        THEN [blocked |-> TRUE, err |-> ErrNone]
        ELSE LET r == EffectiveTLDPlusOne(domain)
             IN  IF r.err # ErrNone
                 THEN IF r.err = ErrCannotDerive
                      THEN [blocked |-> FALSE, err |-> ErrNone]
                      ELSE [blocked |-> FALSE, err |-> r.err]
                 ELSE [blocked |-> TestString(bf, r.apex), err |-> ErrNone]

\* The item lists a download may deliver
ItemLists == {{CutSuffixDot(NameAds)}}

\* The strings outside the list that a filter built from it answers true for
\* (false positives, at rate fpRate = 0.0001: none among the model's names)
FalsePositives == {}

\* BlockList.Load: bloom.NewWithEstimates, then AddString for every item
NewFilter(items) == items \cup FalsePositives

---------------------------------------------------------------------------
(* Cache: expirable-cache v3 built by NewCache().WithMaxKeys(maxSize).WithLRU() *)

KeyIndex(c, key) ==
    LET hit == {i \in 1..Len(c) : c[i].key = key}
    IN  IF hit = {} THEN 0 ELSE CHOOSE i \in hit : TRUE

RemoveAt(c, i) == SubSeq(c, 1, i - 1) \o SubSeq(c, i + 1, Len(c))
MoveToFront(c, i) == <<c[i]>> \o RemoveAt(c, i)

Expired(e, now) == now > e.expiresAt          \* time.Now().After(expiresAt)

\* Cache.Get serving an entry whatever its expiry
CacheGetNoExpiry(c, key, now) ==
    LET i == KeyIndex(c, key)
    IN  IF i # 0
        THEN [ok |-> TRUE, value |-> c[i].value, cache |-> MoveToFront(c, i),
              hits |-> 1, misses |-> 0]
        ELSE [ok |-> FALSE, value |-> <<>>, cache |-> c, hits |-> 0, misses |-> 1]

\* A Get that hands out the records with their TTLs reduced by the entry's age
CacheGetAged(c, key, now) ==
    LET i == KeyIndex(c, key)
        age == IF i # 0 THEN now - c[i].setAt ELSE 0
        aged == IF i # 0
                THEN [j \in 1..Len(c[i].value) |->
                        [c[i].value[j] EXCEPT !.Ttl = IF @ > age THEN @ - age ELSE 0]]
                ELSE <<>>
    IN  IF i # 0 /\ ~Expired(c[i], now)
        THEN [ok |-> TRUE, value |-> aged, cache |-> MoveToFront(c, i),
              hits |-> 1, misses |-> 0]
        ELSE [ok |-> FALSE, value |-> <<>>, cache |-> c, hits |-> 0, misses |-> 1]

\* Cache.Get: an expired entry is a miss and stays where it is
CacheGet(c, key, now) ==
    LET i == KeyIndex(c, key)
    IN  IF i # 0 /\ ~Expired(c[i], now)
        THEN [ok |-> TRUE, value |-> c[i].value, cache |-> MoveToFront(c, i),
              hits |-> 1, misses |-> 0]
        ELSE [ok |-> FALSE, value |-> <<>>, cache |-> c, hits |-> 0, misses |-> 1]

\* The cache-wide TTL: NewCache() sets noEvictionTTL and WithTTL is not called
CacheTTL == NoEvictionTTL

\* Cache.Set: a ttl of 0 means the cache-wide TTL; the oldest entry is removed
\* when expired only if a cache-wide TTL was set. setAt records time.Now().
CacheSet(c, key, value, ttl, now) ==
    LET t == IF ttl = 0 THEN CacheTTL ELSE ttl
        e == [key |-> key, value |-> value, expiresAt |-> now + t, setAt |-> now]
        i == KeyIndex(c, key)
    IN  IF i # 0
        THEN [cache |-> <<e>> \o RemoveAt(c, i), added |-> 0, evicted |-> 0]
        ELSE LET c1 == <<e>> \o c
                 old == CacheTTL # NoEvictionTTL /\ Expired(Last(c1), now)
                 c2 == IF old THEN Front(c1) ELSE c1
                 full == MaxKeys > 0 /\ Len(c2) > MaxKeys
                 c3 == IF full THEN Front(c2) ELSE c2
             IN  [cache |-> c3, added |-> 1,
                  evicted |-> (IF old THEN 1 ELSE 0) + (IF full THEN 1 ELSE 0)]

\* A reaper that empties the cache
DeleteEverything(c, now) == <<>>

\* Cache.DeleteExpired
RECURSIVE DeleteExpired(_, _)
DeleteExpired(c, now) ==
    IF c = <<>> THEN <<>>
    ELSE IF Expired(Head(c), now) THEN DeleteExpired(Tail(c), now)
    ELSE <<Head(c)>> \o DeleteExpired(Tail(c), now)

---------------------------------------------------------------------------
(* DNS messages *)

Questions == [Name : Names, Qtype : {TypeA}, Qclass : {ClassINET}]

RECURSIVE SeqsUpTo(_, _)
SeqsUpTo(S, n) ==
    IF n = 0 THEN {<<>>}
    ELSE LET shorter == SeqsUpTo(S, n - 1)
         IN  shorter \cup {Append(s, x) : s \in {t \in shorter : Len(t) = n - 1}, x \in S}

RDFlags == {TRUE}

\* Two record types of the private-use range: dns.TypeToString has no entry
\* for them
TypePrivate1 == 65280
TypePrivate2 == 65281

\* Questions of these two types for one name that is not blocked
TypedQuestions ==
    [Name : {NameAdsUpper}, Qtype : {TypePrivate1, TypePrivate2}, Qclass : {ClassINET}]

\* Requests with the RD bit set, of up to MaxQuestions questions, and requests
\* of one question without it
Requests ==
    [RecursionDesired : RDFlags, Question : SeqsUpTo(Questions, MaxQuestions)]
    \cup [RecursionDesired : {FALSE}, Question : SeqsUpTo(Questions, 1) \ {<<>>}]

\* writer.RemoteAddr().String(): host:port, and an address without a port
AddrClient == <<"h", ":", "5">>
AddrNoPort == <<"h">>
RemoteAddrs == {AddrClient, AddrNoPort}

\* Requests of up to MaxQuestions questions of these types
TypedRequests ==
    [RecursionDesired : RDFlags, Question : SeqsUpTo(TypedQuestions, MaxQuestions) \ {<<>>}]

\* The synthesised record with the dispatcher's defaultTTL left unset
BlockedSOANoTTL(q) ==
    [Name |-> q.Name, Rrtype |-> TypeSOA, Class |-> ClassINET, Ttl |-> 0,
     Ns |-> "ns.blocked.local.", Mbox |-> "hostmaster.blocked.local.", Serial |-> 1,
     Refresh |-> 3600, Retry |-> 900, Expire |-> 604800, Minttl |-> 0]

\* The record synthesised for a blocked question
BlockedSOA(q) ==
    [Name |-> q.Name, Rrtype |-> TypeSOA, Class |-> ClassINET, Ttl |-> DefaultTTL,
     Ns |-> "ns.blocked.local.", Mbox |-> "hostmaster.blocked.local.", Serial |-> 1,
     Refresh |-> 3600, Retry |-> 900, Expire |-> 604800, Minttl |-> DefaultTTL]

\* Records an upstream resolver may answer with
RRA(name, ttl) ==
    [Name |-> name, Rrtype |-> TypeA, Class |-> ClassINET, Ttl |-> ttl, Rdata |-> "192.0.2.1"]
\* A record of a type that miekg/dns has no struct for (dns.RFC3597)
RROfType(name, type, ttl) ==
    [Name |-> name, Rrtype |-> type, Class |-> ClassINET, Ttl |-> ttl, Rdata |-> "\\# 0"]
RRCNAME(name, ttl) ==
    [Name |-> name, Rrtype |-> TypeCNAME, Class |-> ClassINET, Ttl |-> ttl, Rdata |-> NameTarget]

UpstreamTTLs == {0, 1}
UpstreamRcodes == {RcodeSuccess, RcodeRefused}

\* What an upstream may put in its Answer section for one question: nothing,
\* the address itself, or a CNAME followed by the address of its target
AnswersFor(q) ==
    IF q.Qtype = TypeA
    THEN {<<>>} \cup {<<RRA(q.Name, t)>> : t \in UpstreamTTLs}
                \cup {<<RRCNAME(q.Name, 1), RRA(NameTarget, 1)>>}
    ELSE {<<>>, <<RROfType(q.Name, q.Qtype, 1)>>}

\* The questions of a query, each once, in the order of their first occurrence
RECURSIVE Distinct(_)
Distinct(qs) ==
    IF qs = <<>> THEN <<>>
    ELSE LET d == Distinct(Front(qs))
         IN  IF \E i \in 1..Len(d) : d[i] = Last(qs) THEN d ELSE Append(d, Last(qs))

RECURSIVE AnswersForAll(_)
AnswersForAll(qs) ==
    IF qs = <<>> THEN {<<>>}
    ELSE {a \o rest : a \in AnswersFor(Head(qs)), rest \in AnswersForAll(Tail(qs))}

\* The Answer sections a resolver may return for a query
UpstreamAnswers(qs) == AnswersForAll(Distinct(qs))

\* The SOA a resolver puts in the Authority section of a reply without answers
AuthoritySOA(name) ==
    [Name |-> name, Rrtype |-> TypeSOA, Class |-> ClassINET, Ttl |-> 1,
     Ns |-> "ns.upstream.", Mbox |-> "hostmaster.upstream.", Serial |-> 1,
     Refresh |-> 3600, Retry |-> 900, Expire |-> 604800, Minttl |-> 1]

\* The outcomes of one exchange: a transport error, or a reply; a NOERROR reply
\* without answers may carry an Authority section (Ns)
UpstreamOutcomes(qs) ==
    {[err |-> TRUE, Rcode |-> RcodeSuccess, Answer |-> <<>>, Ns |-> <<>>]}
    \cup [err : {FALSE}, Rcode : {RcodeSuccess}, Answer : UpstreamAnswers(qs), Ns : {<<>>}]
    \cup {[err |-> FALSE, Rcode |-> RcodeSuccess, Answer |-> <<>>,
           Ns |-> <<AuthoritySOA(Head(qs).Name)>>]}
    \cup [err : {FALSE}, Rcode : UpstreamRcodes \ {RcodeSuccess},
          Answer : {<<>>, <<RRA(Head(qs).Name, 1)>>}, Ns : {<<>>}]

---------------------------------------------------------------------------
(* Dispatcher: src/unnamed/part_012 (package forwarder) *)

getQueryType(q) == TypeToString(q.Qtype)

getCacheKey(q) == Fqdn(q.Name) \o <<":">> \o getQueryType(q)

ErrorCategories == {"blocklist", "upstream", "response"}

\* The effects of one request on the metrics, the writer and the upstream
NoEffects ==
    [hits |-> 0, misses |-> 0, added |-> 0, evicted |-> 0,
     errorCounts |-> [c \in ErrorCategories |-> 0],
     total |-> 0, errored |-> 0, forwarded |-> 0,
     queryCounts |-> <<>>, replyCounts |-> <<>>, topDomains |-> <<>>,
     outcomes |-> <<>>, sets |-> <<>>, exchanges |-> <<>>, exchangedAfter |-> <<>>,
     written |-> <<>>, clientIP |-> <<>>, topClients |-> <<>>, uniqueClients |-> <<>>]

\* net.SplitHostPort for addresses without brackets: the port follows the
\* last colon, a missing colon is "missing port in address", a colon left in
\* the host is "too many colons in address"
SplitHostPort(addr) ==
    LET colons == {i \in 1..Len(addr) : addr[i] = ":"}
        i == IF colons = {} THEN 0 ELSE CHOOSE c \in colons : \A j \in colons : j <= c
    IN  IF i = 0 \/ Cardinality(colons) > 1
        THEN [host |-> <<>>, err |-> TRUE]
        ELSE [host |-> SubSeq(addr, 1, i - 1), err |-> FALSE]

\* The literal "unknown"
Unknown == <<"u", "n", "k", "n", "o", "w", "n">>

\* HandleDNSRequest, the host it labels the request's log lines with
clientIP(fx, remoteAddr) ==
    LET r == SplitHostPort(remoteAddr)
    IN  [fx EXCEPT !.clientIP = IF r.err THEN Unknown ELSE r.host]

\* updateClientCount counting the fallback host when the address does not parse
updateClientCountUnknown(fx, remoteAddr) ==
    LET r == SplitHostPort(remoteAddr)
        host == IF r.err THEN Unknown ELSE r.host
    IN  [fx EXCEPT !.topClients = Append(@, host), !.uniqueClients = Append(@, host)]

\* DNSDispatcher.updateClientCount: it parses the remote address itself and
\* returns the error before anything is counted
updateClientCount(fx, remoteAddr) ==
    LET r == SplitHostPort(remoteAddr)
    IN  IF r.err
        THEN fx
        ELSE [fx EXCEPT !.topClients = Append(@, r.host), !.uniqueClients = Append(@, r.host)]

\* dns.Msg.SetReply: a reply with the first question only
SetReply(req) ==
    [Response |-> TRUE, Rcode |-> RcodeSuccess, RecursionDesired |-> req.RecursionDesired,
     Question |-> IF Len(req.Question) > 0 THEN <<req.Question[1]>> ELSE <<>>,
     Answer |-> <<>>, Ns |-> <<>>]

\* A reply left as SetReply builds it
NewReplyFirstOnly(req) == SetReply(req)

\* resp.SetReply(req); resp.Question = req.Question
NewReply(req) == [SetReply(req) EXCEPT !.Question = req.Question]

\* DNSDispatcher.reportError
reportError(fx, category) ==
    [fx EXCEPT !.errorCounts[category] = @ + 1, !.errored = @ + 1]

\* sendResponse writing again after a failed write
sendResponseRetry(fx, msg, writeFails) ==
    LET sent == [fx EXCEPT !.replyCounts = Append(@, RcodeToString(msg.Rcode)),
                           !.written = Append(@, msg)]
    IN  IF writeFails
        THEN reportError([sent EXCEPT !.written = Append(@, msg)], "response")
        ELSE sent

\* DNSDispatcher.sendResponse: one WriteMsg; a failed write is reported
sendResponse(fx, msg, writeFails) ==
    LET sent == [fx EXCEPT !.replyCounts = Append(@, RcodeToString(msg.Rcode)),
                           !.written = Append(@, msg)]
    IN  IF writeFails THEN reportError(sent, "response") ELSE sent

\* processQuestion looking in the cache before it asks the blocklist
processQuestionCacheFirst(bf, c, now, q, fx) ==
    LET g == CacheGet(c, getCacheKey(q), now)
        b == IsBlocked(bf, q.Name)
    IN  IF g.ok
        THEN [answers |-> g.value, err |-> ErrNone, cache |-> g.cache,
              fx |-> [fx EXCEPT !.topDomains = Append(@, q.Name),
                                !.outcomes = Append(@, "hit"),
                                !.queryCounts = Append(@, <<getQueryType(q), "false">>),
                                !.hits = @ + g.hits]]
        ELSE IF b.err # ErrNone
        THEN [answers |-> <<>>, err |-> b.err, cache |-> c,
              fx |-> reportError([fx EXCEPT !.topDomains = Append(@, q.Name),
                                            !.outcomes = Append(@, "error")], "blocklist")]
        ELSE IF b.blocked
        THEN [answers |-> <<BlockedSOA(q)>>, err |-> ErrNone, cache |-> c,
              fx |-> [fx EXCEPT !.topDomains = Append(@, q.Name),
                                !.outcomes = Append(@, "blocked"),
                                !.queryCounts = Append(@, <<getQueryType(q), "true">>)]]
        ELSE [answers |-> <<>>, err |-> ErrNone, cache |-> g.cache,
              fx |-> [fx EXCEPT !.topDomains = Append(@, q.Name),
                                !.outcomes = Append(@, "miss"),
                                !.queryCounts = Append(@, <<getQueryType(q), "false">>),
                                !.misses = @ + g.misses]]

\* DNSDispatcher.processQuestion
processQuestion(bf, c, now, q, fx) ==
    LET b == IsBlocked(bf, q.Name)
    IN  IF b.err # ErrNone
        THEN [answers |-> <<>>, err |-> b.err, cache |-> c,
              fx |-> reportError([fx EXCEPT !.topDomains = Append(@, q.Name),
                                            !.outcomes = Append(@, "error")], "blocklist")]
        ELSE IF b.blocked
        THEN [answers |-> <<BlockedSOA(q)>>, err |-> ErrNone, cache |-> c,
              fx |-> [fx EXCEPT !.topDomains = Append(@, q.Name),
                                !.outcomes = Append(@, "blocked"),
                                !.queryCounts = Append(@, <<getQueryType(q), "true">>)]]
        ELSE LET g == CacheGet(c, getCacheKey(q), now)
             IN  [answers |-> IF g.ok THEN g.value ELSE <<>>, err |-> ErrNone,
                  cache |-> g.cache,
                  fx |-> [fx EXCEPT !.topDomains = Append(@, q.Name),
                                    !.outcomes = Append(@, IF g.ok THEN "hit" ELSE "miss"),
                                    !.queryCounts = Append(@, <<getQueryType(q), "false">>),
                                    !.hits = @ + g.hits, !.misses = @ + g.misses]]

\* questionLoop going on to the next question after a blocklist error
RECURSIVE questionLoopNoAbort(_, _, _, _)
questionLoopNoAbort(bf, now, qs, acc) ==
    IF qs = <<>> THEN acc
    ELSE LET r == processQuestion(bf, acc.cache, now, Head(qs), acc.fx)
         IN  IF r.err # ErrNone
             THEN questionLoopNoAbort(bf, now, Tail(qs),
                     [acc EXCEPT !.err = r.err, !.cache = r.cache, !.fx = r.fx])
             ELSE questionLoopNoAbort(bf, now, Tail(qs),
                     [acc EXCEPT !.cache = r.cache, !.fx = r.fx,
                                 !.answer = IF Len(r.answers) > 0 THEN @ \o r.answers ELSE @,
                                 !.unanswered = IF Len(r.answers) > 0 THEN @
                                                ELSE Append(@, Head(qs))])

\* The loop of HandleDNSRequest over req.Question; it stops at the first error
RECURSIVE questionLoop(_, _, _, _)
questionLoop(bf, now, qs, acc) ==
    IF qs = <<>> THEN acc
    ELSE LET r == processQuestion(bf, acc.cache, now, Head(qs), acc.fx)
         IN  IF r.err # ErrNone
             THEN [acc EXCEPT !.err = r.err, !.cache = r.cache, !.fx = r.fx]
             ELSE questionLoop(bf, now, Tail(qs),
                     [acc EXCEPT !.cache = r.cache, !.fx = r.fx,
                                 !.answer = IF Len(r.answers) > 0 THEN @ \o r.answers ELSE @,
                                 !.unanswered = IF Len(r.answers) > 0 THEN @
                                                ELSE Append(@, Head(qs))])

\* A bucket by owner name alone
BucketByName(answer, key) ==
    SelectSeq(answer, LAMBDA rr : \E t \in {TypeA, TypeCNAME, TypeSOA} :
                                      Fqdn(rr.Name) \o <<":">> \o TypeToString(t) = key)

\* The bucket of answerMap for a key: the answers with that name and type
Bucket(answer, key) ==
    SelectSeq(answer, LAMBDA rr : Fqdn(rr.Name) \o <<":">> \o TypeToString(rr.Rrtype) = key)

\* The loop of resolveUpstream that caches each question's bucket
RECURSIVE cacheLoop(_, _, _, _)
cacheLoop(qs, answer, now, acc) ==
    IF qs = <<>> THEN acc
    ELSE LET key == getCacheKey(Head(qs))
             bucket == Bucket(answer, key)
         IN  IF bucket # <<>>
             THEN LET s == CacheSet(acc.cache, key, bucket, bucket[1].Ttl, now)
                  IN  cacheLoop(Tail(qs), answer, now,
                         [cache |-> s.cache,
                          fx |-> [acc.fx EXCEPT !.added = @ + s.added, !.evicted = @ + s.evicted,
                                    !.sets = Append(@, [key |-> key, value |-> bucket,
                                                        ttl |-> bucket[1].Ttl])]])
             ELSE cacheLoop(Tail(qs), answer, now, acc)

\* DNSDispatcher.forwardQuery: one exchange with the round-robin client;
\* exchangedAfter records how many questions had been processed before it
forwardQuery(fx, upstreamReq) ==
    [fx EXCEPT !.forwarded = @ + 1, !.exchanges = Append(@, upstreamReq),
               !.exchangedAfter = Append(@, Len(fx.outcomes))]

\* resolveUpstream forwarding every question of the request
resolveUpstreamAllQuestions(c, now, unanswered, req, out, fx) ==
    LET upstreamReq == [RecursionDesired |-> req.RecursionDesired, Rcode |-> RcodeSuccess,
                        Question |-> req.Question]
        fx1 == forwardQuery(fx, upstreamReq)
    IN  IF out.err
        THEN [rcode |-> RcodeServerFailure, answers |-> <<>>, err |-> "transport",
              cache |-> c, fx |-> fx1]
        ELSE IF out.Rcode # RcodeSuccess
        THEN [rcode |-> out.Rcode, answers |-> <<>>,
              err |-> "resolver returned a non-success Rcode", cache |-> c, fx |-> fx1]
        ELSE LET done == cacheLoop(unanswered, out.Answer, now, [cache |-> c, fx |-> fx1])
             IN  [rcode |-> upstreamReq.Rcode, answers |-> out.Answer, err |-> ErrNone,
                  cache |-> done.cache, fx |-> done.fx]

\* resolveUpstream without the test of the upstream reply's Rcode
resolveUpstreamAnyRcode(c, now, unanswered, req, out, fx) ==
    LET upstreamReq == [RecursionDesired |-> req.RecursionDesired, Rcode |-> RcodeSuccess,
                        Question |-> unanswered]
        fx1 == forwardQuery(fx, upstreamReq)
    IN  IF out.err
        THEN [rcode |-> RcodeServerFailure, answers |-> <<>>, err |-> "transport",
              cache |-> c, fx |-> fx1]
        ELSE LET done == cacheLoop(unanswered, out.Answer, now, [cache |-> c, fx |-> fx1])
             IN  [rcode |-> upstreamReq.Rcode, answers |-> out.Answer, err |-> ErrNone,
                  cache |-> done.cache, fx |-> done.fx]

\* resolveUpstream returning the upstream request's Rcode on a transport error
resolveUpstreamKeepRcode(c, now, unanswered, req, out, fx) ==
    LET upstreamReq == [RecursionDesired |-> req.RecursionDesired, Rcode |-> RcodeSuccess,
                        Question |-> unanswered]
        fx1 == forwardQuery(fx, upstreamReq)
    IN  IF out.err
        THEN [rcode |-> upstreamReq.Rcode, answers |-> <<>>, err |-> "transport",
              cache |-> c, fx |-> fx1]
        ELSE IF out.Rcode # RcodeSuccess
        THEN [rcode |-> out.Rcode, answers |-> <<>>,
              err |-> "resolver returned a non-success Rcode", cache |-> c, fx |-> fx1]
        ELSE LET done == cacheLoop(unanswered, out.Answer, now, [cache |-> c, fx |-> fx1])
             IN  [rcode |-> upstreamReq.Rcode, answers |-> out.Answer, err |-> ErrNone,
                  cache |-> done.cache, fx |-> done.fx]

\* DNSDispatcher.resolveUpstream, the exchange ending in outcome out
resolveUpstream(c, now, unanswered, req, out, fx) ==
    LET upstreamReq == [RecursionDesired |-> req.RecursionDesired, Rcode |-> RcodeSuccess,
                        Question |-> unanswered]
        fx1 == forwardQuery(fx, upstreamReq)
    IN  IF out.err
        THEN [rcode |-> RcodeServerFailure, answers |-> <<>>, err |-> "transport",
              cache |-> c, fx |-> fx1]
        ELSE IF out.Rcode # RcodeSuccess
        THEN [rcode |-> out.Rcode, answers |-> <<>>,
              err |-> "resolver returned a non-success Rcode", cache |-> c, fx |-> fx1]
        ELSE LET done == cacheLoop(unanswered, out.Answer, now, [cache |-> c, fx |-> fx1])
             IN  [rcode |-> upstreamReq.Rcode, answers |-> out.Answer, err |-> ErrNone,
                  cache |-> done.cache, fx |-> done.fx]

\* No exchange took place
NoExchange == [err |-> FALSE, Rcode |-> RcodeSuccess, Answer |-> <<>>, Ns |-> <<>>]

\* The tail of HandleDNSRequest: NXDOMAIN for a reply with authority records only
finishReply(resp) ==
    IF Len(resp.Answer) = 0 /\ Len(resp.Ns) > 0
    THEN [resp EXCEPT !.Rcode = RcodeNameError]
    ELSE resp

\* The deferred function of HandleDNSRequest
deferred(fx) == [fx EXCEPT !.total = @ + 1]

\* handleUpstream putting the upstream's records before the local ones
handleUpstreamFirst(pre, resp0, now, req, out, writeFails) ==
    LET u == resolveUpstream(pre.cache, now, pre.unanswered, req, out, pre.fx)
    IN  IF u.err # ErrNone
        THEN [cache |-> u.cache,
              fx |-> sendResponse(reportError(u.fx, "upstream"),
                                  [resp0 EXCEPT !.Answer = pre.answer, !.Rcode = u.rcode],
                                  writeFails)]
        ELSE [cache |-> u.cache,
              fx |-> sendResponse(u.fx,
                                  finishReply([resp0 EXCEPT !.Answer = u.answers \o pre.answer]),
                                  writeFails)]

\* HandleDNSRequest after the question loop, when questions are left unanswered
handleUpstream(pre, resp0, now, req, out, writeFails) ==
    LET u == resolveUpstream(pre.cache, now, pre.unanswered, req, out, pre.fx)
    IN  IF u.err # ErrNone
        THEN [cache |-> u.cache,
              fx |-> sendResponse(reportError(u.fx, "upstream"),
                                  [resp0 EXCEPT !.Answer = pre.answer, !.Rcode = u.rcode],
                                  writeFails)]
        ELSE [cache |-> u.cache,
              fx |-> sendResponse(u.fx,
                                  finishReply([resp0 EXCEPT !.Answer = pre.answer \o u.answers]),
                                  writeFails)]

\* afterLoop answering a failed blocklist check with an empty Answer section
afterLoopEmptyOnError(pre, resp0, now, req, out, writeFails) ==
    IF pre.err # ErrNone
    THEN [cache |-> pre.cache,
          fx |-> sendResponse(pre.fx, [resp0 EXCEPT !.Rcode = RcodeServerFailure], writeFails)]
    ELSE IF Len(pre.unanswered) > 0
    THEN handleUpstream(pre, resp0, now, req, out, writeFails)
    ELSE [cache |-> pre.cache,
          fx |-> sendResponse(pre.fx, finishReply([resp0 EXCEPT !.Answer = pre.answer]),
                              writeFails)]

\* afterLoop forwarding the unanswered questions before it looks at the error
afterLoopForwardFirst(pre, resp0, now, req, out, writeFails) ==
    IF Len(pre.unanswered) > 0
    THEN handleUpstream(pre, resp0, now, req, out, writeFails)
    ELSE IF pre.err # ErrNone
    THEN [cache |-> pre.cache,
          fx |-> sendResponse(pre.fx,
                              [resp0 EXCEPT !.Answer = pre.answer, !.Rcode = RcodeServerFailure],
                              writeFails)]
    ELSE [cache |-> pre.cache,
          fx |-> sendResponse(pre.fx, finishReply([resp0 EXCEPT !.Answer = pre.answer]),
                              writeFails)]

\* HandleDNSRequest after the question loop
afterLoop(pre, resp0, now, req, out, writeFails) ==
    IF pre.err # ErrNone
    THEN [cache |-> pre.cache,
          fx |-> sendResponse(pre.fx,
                              [resp0 EXCEPT !.Answer = pre.answer, !.Rcode = RcodeServerFailure],
                              writeFails)]
    ELSE IF Len(pre.unanswered) > 0
    THEN handleUpstream(pre, resp0, now, req, out, writeFails)
    ELSE [cache |-> pre.cache,
          fx |-> sendResponse(pre.fx, finishReply([resp0 EXCEPT !.Answer = pre.answer]),
                              writeFails)]

\* The question loop of a request, from an empty reply
beforeUpstream(bf, c, now, req) ==
    questionLoop(bf, now, req.Question,
                 [answer |-> <<>>, unanswered |-> <<>>, cache |-> c, fx |-> NoEffects,
                  err |-> ErrNone])

---------------------------------------------------------------------------
(* The state machine *)

\* sync.RWMutex, unlocked
MutexFree == [readers |-> 0, writer |-> FALSE]

\* No Load in progress; current is the list the filter in force was built from
LoaderIdle == [pc |-> "idle", items |-> <<>>, bf |-> {}, current |-> {}]

ReaderIds == {1, 2}

\* No IsBlocked call in progress
ReaderIdle ==
    [pc |-> "idle", fqdn |-> <<>>, domain |-> <<>>, list |-> {},
     seen |-> <<>>, result |-> [blocked |-> FALSE, err |-> ErrNone]]

\* A uint32 as two 16-bit limbs, hi * 2^16 + lo
Base == 65536
Zero32 == [hi |-> 0, lo |-> 0]

\* The goroutines that call Exchange concurrently
CallerIds == {1, 2}

\* No Exchange call in progress
CallIdle == [pc |-> "idle", upstream |-> 0]

\* NewRoundRobinClient: counter 0; no upstream selected yet. start is the
\* number of Exchange calls made before the ones listed in selected; obtained
\* lists the values that concurrent calls got from the counter.
RRIdle ==
    [upstreams |-> 0, counter |-> Zero32, start |-> Zero32, selected |-> <<>>,
     panicked |-> FALSE, calls |-> [g \in CallerIds |-> CallIdle], obtained |-> <<>>]

\* No SpaceSaver in use
SSIdle == [k |-> 0, entries |-> {}, minKey |-> "", truth |-> <<>>, adds |-> 0]

WorkerIds == {1, 2}

\* No Add call in progress
WorkerIdle == [pc |-> "idle", key |-> "", entries |-> {}, minKey |-> ""]

\* No TopN or callback call made yet; at is the tracker's entries at the call
ScrapeIdle == [op |-> "none", n |-> 0, result |-> <<>>, exported |-> <<>>, at |-> {}]

\* The goroutines that reach the sketch: one request handler per listener (udp,
\* tcp, dot) and the handler of /metrics
Handlers == {"udp", "tcp", "dot"}
SketchGoroutines == Handlers \cup {"metrics"}

\* hyperloglog.New14(): nothing inserted, no call in progress, no estimate read
SketchIdle ==
    [pc |-> [g \in SketchGoroutines |-> "idle"], host |-> [g \in Handlers |-> ""],
     inserted |-> {}, estimate |-> 0]

\* The metrics' goroutines at rest
MetricsIdle ==
    /\ mu = 0
    /\ workers = [w \in WorkerIds |-> WorkerIdle]
    /\ scrape = ScrapeIdle
    /\ sketch = SketchIdle

\* No blocklist refresh has run
UpdaterIdle == [ran |-> FALSE, failed |-> FALSE, items |-> {}, before |-> {}]

\* The cron jobs before their first run
CronIdle ==
    /\ reaperCalls = 0
    /\ updater = UpdaterIdle

NoRequest ==
    [handled |-> FALSE, req |-> [RecursionDesired |-> TRUE, Question |-> <<>>],
     remoteAddr |-> <<>>, now |-> 0,
     before |-> <<>>, bf |-> {}, out |-> NoExchange, writeFails |-> FALSE, fx |-> NoEffects]

Init ==
    /\ \E items \in ItemLists :
          /\ bloomFilter = NewFilter(items)
          /\ loader = [LoaderIdle EXCEPT !.current = items]
    /\ cache = <<>>
    /\ clock = 0
    /\ last = NoRequest
    /\ mutex = MutexFree
    /\ readers = [r \in ReaderIds |-> ReaderIdle]
    /\ client = RRIdle
    /\ ss = SSIdle
    /\ MetricsIdle
    /\ CronIdle

\* DNSDispatcher.HandleDNSRequest, from the request to the write of the reply,
\* for a request and a remote address drawn from the given sets.
\* The client is counted before the questions are looked at; the counts are
\* fields of their own in the effects, so they are filled in last here.
Handle(requests, addrs) ==
    \E req \in requests, writeFails \in BOOLEAN, remoteAddr \in addrs :
      \E pre \in {beforeUpstream(bloomFilter, cache, clock, req)} :
        \E out \in (IF pre.err = ErrNone /\ Len(pre.unanswered) > 0
                    THEN UpstreamOutcomes(pre.unanswered)
                    ELSE {NoExchange}) :
          \E r \in {afterLoop(pre, NewReply(req), clock, req, out, writeFails)} :
            /\ cache' = r.cache
            /\ last' = [handled |-> TRUE, req |-> req, remoteAddr |-> remoteAddr,
                        now |-> clock, before |-> cache, bf |-> bloomFilter,
                        out |-> out, writeFails |-> writeFails,
                        fx |-> deferred(updateClientCount(clientIP(r.fx, remoteAddr),
                                                          remoteAddr))]
            /\ UNCHANGED <<bloomFilter, clock, blockListVars, client, ss, metricsVars, cronVars>>

\* HandleDNSRequest for the requests of the model, sent by one client
HandleDNSRequest == Handle(Requests, {AddrClient})

\* Time passes
Tick ==
    /\ clock < MaxClock
    /\ clock' = clock + 1
    /\ UNCHANGED <<bloomFilter, cache, last, blockListVars, client, ss, metricsVars, cronVars>>

Next == HandleDNSRequest \/ Tick

Spec == Init /\ [][Next]_vars

\* The requests of one question
SingleQuestionRequests == {req \in Requests : Len(req.Question) = 1}

\* DNSDispatcher.HandleDNSRequest for a request of one question
HandleSingleQuestion == Handle(SingleQuestionRequests, {AddrClient})

\* DNSDispatcher.HandleDNSRequest on a writer with any of the remote addresses
HandleFromAnyAddress == Handle(SingleQuestionRequests, RemoteAddrs)

NextClients == HandleFromAnyAddress \/ Tick

\* The dispatcher reached over writers with and without a host:port address
SpecClients == Init /\ [][NextClients]_vars

\* DNSDispatcher.HandleDNSRequest for questions of types without a canonical name
HandleTypedRequest == Handle(TypedRequests, {AddrClient})

NextTypes == HandleTypedRequest \/ Tick

\* The dispatcher asked for record types without a canonical name
SpecTypes == Init /\ [][NextTypes]_vars

\* CacheReaper.Run: the cron job that deletes the expired entries and counts
\* its invocations
CacheReaperRun ==
    /\ reaperCalls < MaxReaperRuns
    /\ cache' = DeleteExpired(cache, clock)
    /\ reaperCalls' = reaperCalls + 1
    /\ UNCHANGED <<bloomFilter, clock, last, blockListVars, client, ss, metricsVars, updater>>

NextReaper == HandleSingleQuestion \/ Tick \/ CacheReaperRun

\* The dispatcher with the cache reaper running beside it
SpecReaper == Init /\ [][NextReaper]_vars

\* The lists a blocklist refresh may deliver
RefreshLists == {{}, {CutSuffixDot(NameAds)}}

\* BlockList.Load, called by the refresh job between two requests
Load ==
    \E items \in RefreshLists :
        /\ bloomFilter' = NewFilter(items)
        /\ loader' = [LoaderIdle EXCEPT !.current = items]
        /\ UNCHANGED <<mutex, readers, dispatcherVars, client, ss, metricsVars, cronVars>>

NextRefresh == HandleSingleQuestion \/ Tick \/ Load

\* The dispatcher with the blocklist refreshed beside it
SpecRefresh == Init /\ [][NextRefresh]_vars

\* What Fetch returns: the lines of the download with a nil error, or an error
\* with the lines read until then: none when the download itself fails, some
\* when the read of the downloaded file fails
Fetch ==
    {[items |-> items, failed |-> FALSE] : items \in RefreshLists}
    \cup {[items |-> {}, failed |-> TRUE]}
    \cup {[items |-> items, failed |-> TRUE] : items \in RefreshLists}

\* BlocklistUpdater.Run: Fetch, an error is logged, then Load of what Fetch
\* returned
BlocklistUpdaterRun ==
    \E f \in Fetch :
        /\ bloomFilter' = NewFilter(f.items)
        /\ loader' = [LoaderIdle EXCEPT !.current = f.items]
        /\ updater' = [ran |-> TRUE, failed |-> f.failed, items |-> f.items,
                       before |-> bloomFilter]
        /\ UNCHANGED <<mutex, readers, dispatcherVars, client, ss, metricsVars, reaperCalls>>

NextUpdater == HandleSingleQuestion \/ BlocklistUpdaterRun

\* The dispatcher with the scheduled blocklist refresh running beside it
SpecUpdater == Init /\ [][NextUpdater]_vars

---------------------------------------------------------------------------
(* Properties *)

Handled == last.handled
Req == last.req
NumQuestions == Len(last.req.Question)
Fx == last.fx
Reply == last.fx.written[1]                  \* the message handed to WriteMsg
Exchanged == Len(last.fx.exchanges) > 0      \* an upstream exchange took place

\* The blocklist's verdict on question i of the last request
Verdict(i) == IsBlocked(last.bf, last.req.Question[i].Name)

\* rr is the record synthesised for a blocked name
IsBlockedSOAFor(rr, name) ==
    rr.Rrtype = TypeSOA /\ rr.Name = name /\ rr.Ns = "ns.blocked.local."

HasBlockedSOA(msg, name) ==
    \E j \in 1..Len(msg.Answer) : IsBlockedSOAFor(msg.Answer[j], name)

\* C1: the reply written for a request carries exactly the request's questions,
\* in the same order, on every path.
C1_QuestionsEchoed ==
    Handled => /\ Len(Fx.written) >= 1
               /\ \A i \in 1..Len(Fx.written) : Fx.written[i].Question = Req.Question

\* A request with two different questions whose reply echoes the upstream's REFUSED
C1_Witness ==
    /\ Handled /\ NumQuestions = 2 /\ Req.Question[1] # Req.Question[2]
    /\ Len(Fx.written) = 1 /\ Reply.Rcode = RcodeRefused

\* C2: every HandleDNSRequest call hands exactly one message to WriteMsg; a failed
\* write is reported under "response" and is not retried.
C2_ExactlyOneWrite ==
    Handled => /\ Len(Fx.written) = 1
               /\ Len(Fx.replyCounts) = 1
               /\ Fx.errorCounts["response"] = (IF last.writeFails THEN 1 ELSE 0)

\* A reply whose write failed, after the upstream exchange failed too
C2_Witness ==
    Handled /\ last.writeFails /\ Exchanged /\ last.out.err /\ Len(Fx.written) = 1

\* C3 as claimed: every question whose name is blocked has its SOA in the reply,
\* in every request, whatever happens to the other questions.
C3_Original ==
    Handled => \A i \in 1..NumQuestions :
                   Verdict(i).blocked => HasBlockedSOA(Reply, Req.Question[i].Name)

\* C3 amended: every question whose name is blocked, and which no question with a
\* failing blocklist check precedes, has its SOA in the reply; also when a later
\* question fails the check or the upstream exchange fails.
C3_BlockedHasSOA ==
    Handled => \A i \in 1..NumQuestions :
                   (Verdict(i).blocked /\ \A k \in 1..(i - 1) : Verdict(k).err = ErrNone)
                   => HasBlockedSOA(Reply, Req.Question[i].Name)

\* A blocked question followed by one whose blocklist check fails: SERVFAIL with the SOA
C3_Witness ==
    /\ Handled /\ NumQuestions = 2
    /\ Verdict(1).blocked /\ Verdict(2).err # ErrNone
    /\ Reply.Rcode = RcodeServerFailure /\ HasBlockedSOA(Reply, Req.Question[1].Name)

\* C4: when every question is blocked the reply is NOERROR, its Answer section is
\* one SOA per question in question order (owner the queried name, TTL 300, MNAME
\* ns.blocked.local.), its Authority section is empty, no upstream exchange takes
\* place and nothing is written to the cache.
C4_AllBlocked ==
    (Handled /\ \A i \in 1..NumQuestions : Verdict(i).blocked)
    => /\ Reply.Rcode = RcodeSuccess
       /\ Len(Reply.Answer) = NumQuestions
       /\ \A i \in 1..NumQuestions :
             /\ IsBlockedSOAFor(Reply.Answer[i], Req.Question[i].Name)
             /\ Reply.Answer[i].Ttl = 300
       /\ Reply.Ns = <<>>
       /\ Fx.exchanges = <<>> /\ Fx.forwarded = 0
       /\ Fx.sets = <<>> /\ Fx.added = 0

\* Two blocked questions in one request
C4_Witness ==
    /\ Handled /\ NumQuestions = 2 /\ \A i \in 1..NumQuestions : Verdict(i).blocked
    /\ Len(Reply.Answer) = 2

\* Letter case
Lower(ch) == CASE ch = "A" -> "a" [] ch = "B" -> "b" [] ch = "C" -> "c" [] OTHER -> ch
ToLower(s) == [i \in 1..Len(s) |-> Lower(s[i])]

\* Question i of the last request is part of an upstream query
Forwarded(i) ==
    \E e \in 1..Len(Fx.exchanges) :
        \E k \in 1..Len(Fx.exchanges[e].Question) :
            Fx.exchanges[e].Question[k] = Req.Question[i]

\* C5: blocking does not depend on letter case: a processed question whose name
\* differs only in letter case from a blocked name is answered with the SOA and
\* is not forwarded.
C5_CaseInsensitive ==
    Handled => \A i \in 1..Len(Fx.outcomes) :
                   (\E n \in Names : /\ IsBlocked(last.bf, n).blocked
                                     /\ ToLower(n) = ToLower(Req.Question[i].Name))
                   => /\ Fx.outcomes[i] = "blocked"
                      /\ HasBlockedSOA(Reply, Req.Question[i].Name)
                      /\ ~Forwarded(i)

\* C6 as claimed: an exchange takes place exactly when some question is neither
\* blocked nor answered from the cache.
C6_Original ==
    Handled => (Exchanged <=> \E i \in 1..Len(Fx.outcomes) : Fx.outcomes[i] = "miss")

\* C6 amended: an exchange takes place exactly when no blocklist check of the
\* request fails and some question is neither blocked nor answered from the cache.
C6_ExchangeIffUnresolved ==
    Handled => (Exchanged <=> /\ \A i \in 1..Len(Fx.outcomes) : Fx.outcomes[i] # "error"
                              /\ \E i \in 1..Len(Fx.outcomes) : Fx.outcomes[i] = "miss")

\* A blocked question and a cache hit in one request: no exchange
C6_Witness ==
    /\ Handled /\ ~Exchanged
    /\ \E i, j \in 1..Len(Fx.outcomes) : Fx.outcomes[i] = "blocked" /\ Fx.outcomes[j] = "hit"

RRSet(answer) == {answer[i] : i \in 1..Len(answer)}

\* C7: a request with one question that is not blocked, answered by the upstream
\* with NOERROR and a non-empty Answer section, and asked again before any TTL of
\* that answer elapses: the second reply has the same Answer records, it comes
\* from the cache (one miss and one hit over the two requests) and no second
\* exchange takes place.
C7_SecondFromCache ==
    [][(/\ last.handled /\ last'.handled /\ last' # last
        /\ last'.req = last.req /\ Len(last.req.Question) = 1
        /\ last'.bf = last.bf
        /\ IsBlocked(last.bf, last.req.Question[1].Name) = [blocked |-> FALSE, err |-> ErrNone]
        /\ Len(last.fx.exchanges) = 1 /\ ~last.out.err /\ last.out.Rcode = RcodeSuccess
        /\ last.out.Answer # <<>>
        /\ \A i \in 1..Len(last.out.Answer) : last'.now < last.now + last.out.Answer[i].Ttl)
       => (/\ RRSet(last'.fx.written[1].Answer) = RRSet(last.fx.written[1].Answer)
           /\ last.fx.misses + last'.fx.misses = 1
           /\ last.fx.hits + last'.fx.hits = 1
           /\ last'.fx.exchanges = <<>>)]_vars

\* The upstream answered the last request with an Rcode other than NOERROR
UpstreamRefused == Handled /\ Exchanged /\ ~last.out.err /\ last.out.Rcode # RcodeSuccess

\* C8: when the upstream's Rcode is not NOERROR the reply carries that Rcode,
\* nothing is written to the cache and no record of the upstream's Answer section
\* is in the reply.
C8_RcodePropagated ==
    UpstreamRefused
    => /\ Reply.Rcode = last.out.Rcode
       /\ Fx.sets = <<>> /\ Fx.added = 0
       /\ \A j \in 1..Len(Reply.Answer) : \A k \in 1..Len(last.out.Answer) :
             Reply.Answer[j] # last.out.Answer[k]

\* A REFUSED upstream reply that carries an Answer section
C8_Witness ==
    UpstreamRefused /\ last.out.Rcode = RcodeRefused /\ last.out.Answer # <<>>

\* C9: when the upstream's Rcode is not NOERROR (and the reply is written) no
\* error counter changes.
C9_NoErrorCounted ==
    (UpstreamRefused /\ ~last.writeFails)
    => /\ \A c \in ErrorCategories : Fx.errorCounts[c] = 0
       /\ Fx.errored = 0

\* The upstream exchange of the last request failed with a transport error
UpstreamFailed == Handled /\ Exchanged /\ last.out.err

\* C10: on a transport error the reply is SERVFAIL, nothing is written to the
\* cache and the exchange is not repeated.
C10_TransportError ==
    UpstreamFailed
    => /\ Reply.Rcode = RcodeServerFailure
       /\ Fx.sets = <<>> /\ Fx.added = 0
       /\ Len(Fx.exchanges) = 1 /\ Fx.forwarded = 1

\* A transport error for a request with a blocked and an unresolved question
C10_Witness ==
    /\ UpstreamFailed
    /\ \E i, j \in 1..Len(Fx.outcomes) : Fx.outcomes[i] = "blocked" /\ Fx.outcomes[j] = "miss"

\* Question i of the last request is the first whose blocklist check fails
FirstFailing(i) ==
    /\ Verdict(i).err # ErrNone
    /\ \A j \in 1..(i - 1) : Verdict(j).err = ErrNone

\* The questions before question i that are not blocked
NotBlockedBefore(i) == {j \in 1..(i - 1) : ~Verdict(j).blocked}

\* C11: when the blocklist check of question i fails the reply is SERVFAIL, the
\* questions after i are not processed (they are not tracked, not checked, not
\* looked up in the cache and not counted) and no upstream exchange takes place.
C11_BlocklistErrorAborts ==
    Handled => \A i \in 1..NumQuestions :
                   FirstFailing(i)
                   => /\ Reply.Rcode = RcodeServerFailure
                      /\ Len(Fx.outcomes) = i /\ Fx.outcomes[i] = "error"
                      /\ Len(Fx.topDomains) = i
                      /\ Len(Fx.queryCounts) = i - 1
                      /\ Fx.hits + Fx.misses = Cardinality(NotBlockedBefore(i))
                      /\ Fx.exchanges = <<>> /\ Fx.forwarded = 0

\* A failing first question followed by another question
C11_Witness ==
    Handled /\ NumQuestions = 2 /\ FirstFailing(1) /\ Len(Fx.written) = 1

\* The sum of the error counters of the last request
ErrorTotal == Fx.errorCounts["blocklist"] + Fx.errorCounts["upstream"] + Fx.errorCounts["response"]

\* C12: every error is counted once under its category (blocklist error,
\* upstream transport error, failed write), and a request without any of these
\* changes no error counter.
C12_ErrorsCountedOnce ==
    Handled
    => /\ Fx.errorCounts["blocklist"] = (IF \E i \in 1..NumQuestions : FirstFailing(i) THEN 1 ELSE 0)
       /\ Fx.errorCounts["upstream"] = (IF Exchanged /\ last.out.err THEN 1 ELSE 0)
       /\ Fx.errorCounts["response"] = (IF last.writeFails THEN 1 ELSE 0)
       /\ Fx.errored = ErrorTotal

---------------------------------------------------------------------------
(* The blocklist on its own: Load and IsBlocked called one after another *)

NameAdsNoDot == <<"a", ".", "c">>                      \* a.c     (no trailing dot)
NameSubAds   == <<"x", ".", "a", ".", "c", ".">>       \* x.a.c.  (eTLD+1 a.c)
NameSuffix   == <<"s", ".", "c", ".">>                 \* s.c.    (a public suffix)
NameSubSuffix == <<"x", ".", "s", ".", "c", ".">>      \* x.s.c.  (eTLD+1 x.s.c)

\* The names IsBlocked is asked about
BlockListNames ==
    {NameAds, NameAdsNoDot, NameSubAds, NameSuffix, NameSubSuffix, NameEscaped, NameTarget}

\* The items a list may hold
BlockListItems == {CutSuffixDot(NameAds), CutSuffixDot(NameSubSuffix)}

\* The strings outside a list that its filter may answer true for
FalsePositiveCandidates == {CutSuffixDot(NameSuffix)}

\* The filters bloom.NewWithEstimates and AddString may build from items
LoadedFilters(items) ==
    {NewFilter(items) \cup fp : fp \in SUBSET (FalsePositiveCandidates \ items)}

\* NewBlockList(items, fpRate, logger)
InitBlockList ==
    /\ \E items \in SUBSET BlockListItems :
          /\ bloomFilter \in LoadedFilters(items)
          /\ loader = [LoaderIdle EXCEPT !.current = items]
    /\ mutex = MutexFree
    /\ readers = [r \in ReaderIds |-> ReaderIdle]
    /\ cache = <<>> /\ clock = 0 /\ last = NoRequest
    /\ client = RRIdle /\ ss = SSIdle
    /\ MetricsIdle
    /\ CronIdle

\* BlockList.Load, with no IsBlocked call in progress
LoadAll ==
    \E items \in SUBSET BlockListItems :
        /\ bloomFilter' \in LoadedFilters(items)
        /\ loader' = [LoaderIdle EXCEPT !.current = items]
        /\ UNCHANGED <<mutex, readers, dispatcherVars, client, ss, metricsVars, cronVars>>

\* BlockList.IsBlocked, with no Load in progress
CallIsBlocked ==
    \E r \in ReaderIds, n \in BlockListNames :
        /\ readers' = [readers EXCEPT ![r] =
                          [pc |-> "done", fqdn |-> n, domain |-> CutSuffixDot(n),
                           list |-> loader.current, seen |-> <<bloomFilter>>,
                           result |-> IsBlocked(bloomFilter, n)]]
        /\ UNCHANGED <<bloomFilter, mutex, loader, dispatcherVars, client, ss, metricsVars, cronVars>>

NextIsBlocked == LoadAll \/ CallIsBlocked

SpecIsBlocked == InitBlockList /\ [][NextIsBlocked]_vars

\* Reader r has returned from IsBlocked
Returned(r) == readers[r].pc = "done"

\* The name of reader r's call without its trailing dot
Asked(r) ==
    IF readers[r].fqdn # <<>> /\ Last(readers[r].fqdn) = "." THEN Front(readers[r].fqdn)
    ELSE readers[r].fqdn

\* C13: no false negatives: when the name without its trailing dot, or its
\* eTLD+1, is in the loaded list, IsBlocked returns (true, no error).
C13_NoFalseNegatives ==
    \A r \in ReaderIds :
        Returned(r)
        => LET e == EffectiveTLDPlusOne(Asked(r))
           IN  (\/ Asked(r) \in readers[r].list
                \/ e.err = ErrNone /\ e.apex \in readers[r].list)
               => readers[r].result = [blocked |-> TRUE, err |-> ErrNone]

\* A name that is not in the list itself and whose eTLD+1 is
C13_Witness ==
    \E r \in ReaderIds :
        /\ Returned(r) /\ readers[r].fqdn = NameSubAds
        /\ CutSuffixDot(NameAds) \in readers[r].list
        /\ readers[r].result.blocked

\* C14: with the exact name not in the filter, a domain that is itself a public
\* suffix gives (false, no error) and any other eTLD+1 error is returned with
\* false; true is never returned together with an error.
C14_SuffixErrors ==
    \A r \in ReaderIds :
        Returned(r)
        => LET e == EffectiveTLDPlusOne(Asked(r))
               exact == TestString(readers[r].seen[1], Asked(r))
           IN  /\ (~exact /\ e.err = ErrCannotDerive)
                  => readers[r].result = [blocked |-> FALSE, err |-> ErrNone]
               /\ (~exact /\ e.err \notin {ErrNone, ErrCannotDerive})
                  => readers[r].result = [blocked |-> FALSE, err |-> e.err]
               /\ ~(readers[r].result.blocked /\ readers[r].result.err # ErrNone)

\* One call for a public suffix and one call whose eTLD+1 lookup fails otherwise
C14_Witness ==
    \E r1, r2 \in ReaderIds :
        /\ Returned(r1) /\ readers[r1].fqdn = NameSuffix
        /\ ~TestString(readers[r1].seen[1], Asked(r1))
        /\ readers[r1].result = [blocked |-> FALSE, err |-> ErrNone]
        /\ Returned(r2) /\ readers[r2].fqdn = NameEscaped
        /\ readers[r2].result.err = ErrEmptyLabel

---------------------------------------------------------------------------
(* The blocklist under concurrency: Load and IsBlocked, statement by statement *)

Range(seq) == {seq[i] : i \in 1..Len(seq)}

\* The lists Load is called with, as the slices it iterates over
LoadLists ==
    {<<CutSuffixDot(NameAds)>>, <<CutSuffixDot(NameSubSuffix), CutSuffixDot(NameTarget)>>}

\* The names the concurrent IsBlocked calls ask about
ConcurrentNames == {NameAds, NameSubAds}

\* NewBlockList with one of the lists
InitConcurrent ==
    /\ \E items \in LoadLists :
          /\ bloomFilter = NewFilter(Range(items))
          /\ loader = [LoaderIdle EXCEPT !.current = Range(items)]
    /\ mutex = MutexFree
    /\ readers = [r \in ReaderIds |-> ReaderIdle]
    /\ cache = <<>> /\ clock = 0 /\ last = NoRequest
    /\ client = RRIdle /\ ss = SSIdle
    /\ MetricsIdle
    /\ CronIdle

\* Load: bf := bloom.NewWithEstimates(n, fpRate), a filter of its own
LoadBegin ==
    \E items \in LoadLists :
        /\ loader.pc = "idle"
        /\ loader' = [loader EXCEPT !.pc = "build", !.items = items, !.bf = {}]
        /\ UNCHANGED <<bloomFilter, mutex, readers, dispatcherVars, client, ss, metricsVars, cronVars>>

\* Load: bf.AddString(item) for the next item
LoadAdd ==
    /\ loader.pc = "build" /\ loader.items # <<>>
    /\ loader' = [loader EXCEPT !.bf = @ \cup {Head(loader.items)}, !.items = Tail(@)]
    /\ UNCHANGED <<bloomFilter, mutex, readers, dispatcherVars, client, ss, metricsVars, cronVars>>

\* mutex.Lock taken although readers hold the mutex
LoadLockNoWait ==
    /\ loader.pc = "build" /\ loader.items = <<>>
    /\ ~mutex.writer
    /\ mutex' = [mutex EXCEPT !.writer = TRUE]
    /\ loader' = [loader EXCEPT !.pc = "locked"]
    /\ UNCHANGED <<bloomFilter, readers, dispatcherVars, client, ss, metricsVars, cronVars>>

\* Load: blocklist.mutex.Lock(), which waits until no reader and no writer holds it
LoadLock ==
    /\ loader.pc = "build" /\ loader.items = <<>>
    /\ mutex.readers = 0 /\ ~mutex.writer
    /\ mutex' = [mutex EXCEPT !.writer = TRUE]
    /\ loader' = [loader EXCEPT !.pc = "locked"]
    /\ UNCHANGED <<bloomFilter, readers, dispatcherVars, client, ss, metricsVars, cronVars>>

\* Load: blocklist.bloomFilter = bf
LoadSwap ==
    /\ loader.pc = "locked"
    /\ bloomFilter' = loader.bf \cup FalsePositives
    /\ loader' = [loader EXCEPT !.pc = "swapped", !.current = loader.bf]
    /\ UNCHANGED <<mutex, readers, dispatcherVars, client, ss, metricsVars, cronVars>>

\* Load: blocklist.mutex.Unlock()
LoadUnlock ==
    /\ loader.pc = "swapped"
    /\ mutex' = [mutex EXCEPT !.writer = FALSE]
    /\ loader' = [loader EXCEPT !.pc = "idle", !.bf = {}]
    /\ UNCHANGED <<bloomFilter, readers, dispatcherVars, client, ss, metricsVars, cronVars>>

\* IsBlocked: domain, _ := strings.CutSuffix(fqdn, ".")
IsBlockedBegin(r) ==
    \E n \in ConcurrentNames :
        /\ readers[r].pc \in {"idle", "done"}
        /\ readers' = [readers EXCEPT ![r] =
                          [ReaderIdle EXCEPT !.pc = "rlock", !.fqdn = n,
                                             !.domain = CutSuffixDot(n)]]
        /\ UNCHANGED <<bloomFilter, mutex, loader, dispatcherVars, client, ss, metricsVars, cronVars>>

\* IsBlocked: blockList.mutex.RLock(), which waits while a writer holds the mutex
IsBlockedRLock(r) ==
    /\ readers[r].pc = "rlock"
    /\ ~mutex.writer
    /\ mutex' = [mutex EXCEPT !.readers = @ + 1]
    /\ readers' = [readers EXCEPT ![r].pc = "exact"]
    /\ UNCHANGED <<bloomFilter, loader, dispatcherVars, client, ss, metricsVars, cronVars>>

\* IsBlocked: the test of the exact name
IsBlockedExact(r) ==
    /\ readers[r].pc = "exact"
    /\ readers' = [readers EXCEPT ![r] =
          [@ EXCEPT !.seen = <<bloomFilter>>, !.list = loader.current,
                    !.pc = IF TestString(bloomFilter, readers[r].domain) THEN "unlock"
                            ELSE "apex",
                    !.result = [blocked |-> TestString(bloomFilter, readers[r].domain),
                                err |-> ErrNone]]]
    /\ UNCHANGED <<bloomFilter, mutex, loader, dispatcherVars, client, ss, metricsVars, cronVars>>

\* IsBlocked: the eTLD+1 lookup and the test of the apex domain
IsBlockedApex(r) ==
    /\ readers[r].pc = "apex"
    /\ LET e == EffectiveTLDPlusOne(readers[r].domain)
       IN  readers' = [readers EXCEPT ![r] =
              IF e.err # ErrNone
              THEN [@ EXCEPT !.pc = "unlock",
                             !.result = [blocked |-> FALSE,
                                         err |-> IF e.err = ErrCannotDerive
                                                 THEN ErrNone ELSE e.err]]
              ELSE [@ EXCEPT !.pc = "unlock", !.seen = Append(@, bloomFilter),
                             !.result = [blocked |-> TestString(bloomFilter, e.apex),
                                         err |-> ErrNone]]]
    /\ UNCHANGED <<bloomFilter, mutex, loader, dispatcherVars, client, ss, metricsVars, cronVars>>

\* IsBlocked: the deferred blockList.mutex.RUnlock()
IsBlockedRUnlock(r) ==
    /\ readers[r].pc = "unlock"
    /\ mutex' = [mutex EXCEPT !.readers = @ - 1]
    /\ readers' = [readers EXCEPT ![r].pc = "done"]
    /\ UNCHANGED <<bloomFilter, loader, dispatcherVars, client, ss, metricsVars, cronVars>>

NextConcurrent ==
    \/ LoadBegin \/ LoadAdd \/ LoadLock \/ LoadSwap \/ LoadUnlock
    \/ \E r \in ReaderIds :
          \/ IsBlockedBegin(r) \/ IsBlockedRLock(r) \/ IsBlockedExact(r)
          \/ IsBlockedApex(r) \/ IsBlockedRUnlock(r)

SpecConcurrent == InitConcurrent /\ [][NextConcurrent]_vars

\* The filters that Load builds completely from one of its lists
Generations == {NewFilter(Range(items)) : items \in LoadLists}

\* C15: every IsBlocked call makes its tests against one completely built
\* filter, the same for the exact name and for the eTLD+1, whatever Load does
\* meanwhile; its result is that of the whole call on that one filter.
C15_OneGeneration ==
    \A r \in ReaderIds :
        /\ \A i \in 1..Len(readers[r].seen) :
              /\ readers[r].seen[i] \in Generations
              /\ readers[r].seen[i] = readers[r].seen[1]
        /\ Returned(r) => readers[r].result = IsBlocked(readers[r].seen[1], readers[r].fqdn)

\* A reader between its two tests while Load has a new filter ready to swap in
C15_Witness ==
    \E r \in ReaderIds :
        /\ readers[r].pc = "apex"
        /\ loader.pc = "build" /\ loader.items = <<>>
        /\ loader.bf # bloomFilter

---------------------------------------------------------------------------
(* Properties of the cache *)

\* The entry the cache held for question i when the last request arrived
\* (position in last.before; 0 when there was none)
EntryFor(i) == KeyIndex(last.before, getCacheKey(Req.Question[i]))

\* Question i of the last request was looked up in the cache
LookedUp(i) == i <= Len(Fx.outcomes) /\ Fx.outcomes[i] \in {"hit", "miss"}

\* The records rrs appear in the section, next to each other and in order
Holds(section, rrs) ==
    \E k \in 0..(Len(section) - Len(rrs)) : SubSeq(section, k + 1, k + Len(rrs)) = rrs

\* C16: a lookup after the entry's expiry is a miss and the question is
\* forwarded (unless a later blocklist error aborts the request), whether or not
\* the reaper ran; a lookup before the expiry serves the stored records.
C16_VisibleBeforeExpiry ==
    Handled
    => /\ \A i \in 1..NumQuestions :
             (LookedUp(i) /\ EntryFor(i) # 0)
             => LET e == last.before[EntryFor(i)]
                IN  /\ last.now > e.expiresAt
                       => /\ Fx.outcomes[i] = "miss"
                          /\ (\A j \in 1..Len(Fx.outcomes) : Fx.outcomes[j] # "error")
                             => Forwarded(i)
                    /\ last.now < e.expiresAt
                       => Fx.outcomes[i] = "hit" /\ Holds(Reply.Answer, e.value)
       /\ Fx.misses = Cardinality({i \in 1..Len(Fx.outcomes) : Fx.outcomes[i] = "miss"})
       /\ Fx.hits = Cardinality({i \in 1..Len(Fx.outcomes) : Fx.outcomes[i] = "hit"})

\* A lookup of an expired entry that the reaper has not removed
C16_Witness ==
    /\ Handled
    /\ \E i \in 1..NumQuestions :
          /\ LookedUp(i) /\ EntryFor(i) # 0
          /\ last.now > last.before[EntryFor(i)].expiresAt
          /\ Fx.outcomes[i] = "miss" /\ Forwarded(i)

\* C17: each Set call of the last request stores a question's bucket under its
\* fingerprint for the TTL of the bucket's first record, and an entry served
\* from the cache was filled no more than that TTL ago (also for a TTL of 0).
C17_LifetimeIsFirstTTL ==
    Handled
    => /\ \A k \in 1..Len(Fx.sets) :
             /\ Fx.sets[k].value # <<>>
             /\ Fx.sets[k].value = Bucket(last.out.Answer, Fx.sets[k].key)
             /\ Fx.sets[k].ttl = Fx.sets[k].value[1].Ttl
             /\ \E i \in 1..NumQuestions : getCacheKey(Req.Question[i]) = Fx.sets[k].key
       /\ \A i \in 1..NumQuestions :
             (LookedUp(i) /\ Fx.outcomes[i] = "hit")
             => LET e == last.before[EntryFor(i)]
                IN  last.now <= e.setAt + e.value[1].Ttl

---------------------------------------------------------------------------
(* Properties of the reply and of the upstream query *)

\* The last request was not aborted: no blocklist check failed and the upstream
\* exchange, if any, gave a NOERROR reply
NotAborted ==
    /\ Handled
    /\ \A i \in 1..NumQuestions : Verdict(i).err = ErrNone
    /\ ~last.out.err /\ last.out.Rcode = RcodeSuccess

\* The cache entry for question i is there and has not expired
LiveEntry(i) == EntryFor(i) # 0 /\ ~Expired(last.before[EntryFor(i)], last.now)

\* The records produced locally for the first i questions of the last request
RECURSIVE LocalAnswers(_)
LocalAnswers(i) ==
    IF i = 0 THEN <<>>
    ELSE LocalAnswers(i - 1)
         \o (IF Verdict(i).blocked THEN <<BlockedSOA(Req.Question[i])>>
             ELSE IF LiveEntry(i) THEN last.before[EntryFor(i)].value
             ELSE <<>>)

\* C23: in a reply that is not aborted the Answer section is the locally produced
\* records (SOA of a blocked question, cached records of a hit) in question order,
\* followed by the whole Answer section of the upstream's reply in its order.
C23_AnswerOrder ==
    NotAborted => Reply.Answer = LocalAnswers(NumQuestions) \o last.out.Answer

\* An unresolved question before a blocked one: the SOA of the second question
\* comes before the upstream's records for the first
C23_Witness ==
    /\ NotAborted /\ NumQuestions = 2
    /\ ~Verdict(1).blocked /\ Verdict(2).blocked
    /\ Len(last.out.Answer) = 2 /\ Len(Reply.Answer) = 3
    /\ IsBlockedSOAFor(Reply.Answer[1], Req.Question[2].Name)

\* Question i of the last request is neither blocked nor answered from the cache
IsUnresolved(i) == ~Verdict(i).blocked /\ ~LiveEntry(i)

\* The unresolved questions among the first i, in request order
RECURSIVE UnresolvedUpTo(_)
UnresolvedUpTo(i) ==
    IF i = 0 THEN <<>>
    ELSE IF IsUnresolved(i) THEN Append(UnresolvedUpTo(i - 1), Req.Question[i])
    ELSE UnresolvedUpTo(i - 1)

\* C24: a request triggers at most one upstream exchange; its query carries the
\* unresolved questions in request order and the request's RecursionDesired flag,
\* and it is made after every question of the request has been processed.
C24_OneExchange ==
    Handled
    => /\ Len(Fx.exchanges) <= 1 /\ Fx.forwarded = Len(Fx.exchanges)
       /\ Exchanged
          => /\ Fx.exchanges[1].Question = UnresolvedUpTo(NumQuestions)
             /\ Fx.exchanges[1].RecursionDesired = Req.RecursionDesired
             /\ Fx.exchangedAfter = <<NumQuestions>>
             /\ Len(Fx.outcomes) = NumQuestions

\* A blocked question before an unresolved one: the query carries the second only
C24_Witness ==
    /\ Handled /\ Exchanged
    /\ NumQuestions = 2 /\ Verdict(1).blocked
    /\ Fx.exchanges[1].Question = <<Req.Question[2]>>

\* C25: when the upstream answers NOERROR with an empty Answer section and a
\* non-empty Authority section, and no question of the request was answered
\* locally, the reply has no Answer, has Authority records and its rcode is
\* NXDOMAIN.
C25_AuthorityOnlyIsNXDOMAIN ==
    (/\ NotAborted /\ Exchanged
     /\ last.out.Answer = <<>> /\ last.out.Ns # <<>>
     /\ LocalAnswers(NumQuestions) = <<>>)
    => /\ Reply.Answer = <<>>
       /\ Reply.Ns # <<>>
       /\ Reply.Rcode = RcodeNameError

\* The processed questions of the last request that are not blocked
ProcessedNotBlocked ==
    {i \in 1..Len(Fx.outcomes) : Verdict(i).err = ErrNone /\ ~Verdict(i).blocked}

\* C29: a question whose name is blocked and which has a live cache entry (filled
\* before a refresh blocked the name) is answered with the synthesised SOA, none
\* of the cached records is in the reply, and the cache is not consulted for it:
\* hits and misses count the questions that are not blocked only.
C29_BlocklistBeforeCache ==
    Handled
    => /\ \A i \in 1..Len(Fx.outcomes) :
             (Verdict(i).blocked /\ LiveEntry(i))
             => /\ Fx.outcomes[i] = "blocked"
                /\ HasBlockedSOA(Reply, Req.Question[i].Name)
                /\ \A j \in 1..Len(Reply.Answer) :
                      Reply.Answer[j] \notin Range(last.before[EntryFor(i)].value)
       /\ Fx.hits + Fx.misses = Cardinality(ProcessedNotBlocked)

\* A request for a name that was cached and then blocked by a refresh
C29_Witness ==
    /\ Handled
    /\ \E i \in 1..Len(Fx.outcomes) :
          /\ Verdict(i).blocked /\ LiveEntry(i)
          /\ last.before[EntryFor(i)].value # <<>>
          /\ Fx.outcomes[i] = "blocked"

\* The cache holds a live entry whose key differs from question i's fingerprint
\* in letter case at most
LiveEntryIgnoringCase(i) ==
    \E k \in 1..Len(last.before) :
        /\ ToLower(last.before[k].key) = ToLower(getCacheKey(Req.Question[i]))
        /\ ~Expired(last.before[k], last.now)

\* C30: a question looked up in the cache, for which the cache holds a live entry
\* filled for a name of the same type that differs only in letter case (or in
\* the trailing dot), is a hit and is not forwarded.
C30_FingerprintLowercased ==
    Handled => \A i \in 1..NumQuestions :
                   (LookedUp(i) /\ LiveEntryIgnoringCase(i))
                   => Fx.outcomes[i] = "hit" /\ ~Forwarded(i)

\* C33: for every handled request exactly one key is added to the client
\* tracker and to the unique-client sketch: the host of the writer's remote
\* address, or "unknown" when the address is not host:port.
C33_OneClientKey ==
    Handled
    => LET r == SplitHostPort(last.remoteAddr)
           key == IF r.err THEN Unknown ELSE r.host
       IN  Fx.topClients = <<key>> /\ Fx.uniqueClients = <<key>>

\* The same for the remote addresses that are host:port
C33_ParsedClientCounted ==
    (Handled /\ ~SplitHostPort(last.remoteAddr).err) => C33_OneClientKey

\* The (FQDN name, record type) pair of a question and of a record
QuestionPair(q) == <<Fqdn(q.Name), q.Qtype>>
RecordPair(rr) == <<Fqdn(rr.Name), rr.Rrtype>>

\* C36: the cache is written only after a NOERROR upstream reply, only under the
\* fingerprint of a question that was unresolved in the request and only with
\* records of the upstream's answer whose (FQDN name, type) is that question's;
\* a record that matches no unresolved question and a name that was blocked in
\* the request get no entry.
C36_CacheFill ==
    Handled
    => /\ Fx.sets # <<>>
          => Exchanged /\ ~last.out.err /\ last.out.Rcode = RcodeSuccess
       /\ \A s \in 1..Len(Fx.sets) :
             /\ \E i \in 1..NumQuestions :
                   IsUnresolved(i) /\ Fx.sets[s].key = getCacheKey(Req.Question[i])
             /\ \A i \in 1..NumQuestions :
                   Fx.sets[s].key = getCacheKey(Req.Question[i])
                   => /\ ~Verdict(i).blocked
                      /\ \A j \in 1..Len(Fx.sets[s].value) :
                            RecordPair(Fx.sets[s].value[j]) = QuestionPair(Req.Question[i])
             /\ \A j \in 1..Len(Fx.sets[s].value) :
                   \E k \in 1..Len(last.out.Answer) : last.out.Answer[k] = Fx.sets[s].value[j]

\* A blocked and an unresolved question in one request; the upstream's record
\* for the second is cached
C36_Witness ==
    /\ Handled /\ NumQuestions = 2
    /\ Verdict(1).blocked /\ IsUnresolved(2)
    /\ Len(Fx.sets) = 1 /\ Fx.sets[1].key = getCacheKey(Req.Question[2])

\* A CNAME chain in the upstream's answer: none of its records is cached
C36_WitnessNoMatch ==
    /\ Handled /\ Exchanged /\ Len(last.out.Answer) = 2
    /\ last.out.Answer[1].Rrtype = TypeCNAME
    /\ Fx.sets = <<>>

\* C37: questions with different (FQDN name, record type) pairs have different
\* cache keys, whatever the 16-bit type, so the records served from the cache
\* for a question are of the question's type.
C37_NoTypeConfusion ==
    Handled
    => \A i \in 1..NumQuestions :
          /\ \A q \in TypedQuestions \cup Questions :
                QuestionPair(Req.Question[i]) # QuestionPair(q)
                => getCacheKey(Req.Question[i]) # getCacheKey(q)
          /\ (LookedUp(i) /\ Fx.outcomes[i] = "hit")
             => \A j \in 1..Len(last.before[EntryFor(i)].value) :
                   last.before[EntryFor(i)].value[j].Rrtype = Req.Question[i].Qtype

\* The second half of C37 alone: what a hit serves is of the question's type
C37_ServedTypeMatches ==
    Handled
    => \A i \in 1..NumQuestions :
          (LookedUp(i) /\ Fx.outcomes[i] = "hit")
          => \A j \in 1..Len(last.before[EntryFor(i)].value) :
                last.before[EntryFor(i)].value[j].Rrtype = Req.Question[i].Qtype

\* C38: on a cache hit the records appended to the reply are the stored ones
\* with their TTL fields as stored, whatever the age of the entry, and the hit
\* leaves the stored entry as it was.
C38_HitServesStoredRRs ==
    [][last' # last
       => \A i \in 1..Len(last'.req.Question) :
             (i <= Len(last'.fx.outcomes) /\ last'.fx.outcomes[i] = "hit")
             => LET key == getCacheKey(last'.req.Question[i])
                    at == KeyIndex(cache, key)
                    after == KeyIndex(cache', key)
                IN  /\ at # 0
                    /\ Holds(last'.fx.written[1].Answer, cache[at].value)
                    /\ after # 0 => cache'[after] = cache[at]]_vars

\* A hit on an entry older than its remaining lifetime: the record is served
\* with a TTL larger than what is left, and the entry is still as it was
C38_Witness ==
    /\ Handled /\ NumQuestions = 1 /\ LookedUp(1) /\ Fx.outcomes[1] = "hit"
    /\ LET e == last.before[EntryFor(1)]
       IN  /\ e.setAt < last.now
           /\ e.value[1].Ttl > e.expiresAt - last.now
           /\ Holds(Reply.Answer, e.value)
           /\ cache = <<e>>

---------------------------------------------------------------------------
(* Properties of the cron jobs *)

\* The entries of a cache
Entries(c) == {c[i] : i \in 1..Len(c)}

C32_WitnessLive ==
    /\ reaperCalls = MaxReaperRuns
    /\ cache # <<>> /\ \A e \in Entries(cache) : ~Expired(e, clock)

\* C35: a scheduled refresh whose download fails leaves the blocklist as it
\* was: every name blocked before the failed run is blocked after it.
C35_FailedRefreshKeepsBlocklist ==
    (updater.ran /\ updater.failed)
    => \A name \in Names :
          IsBlocked(updater.before, name).blocked => IsBlocked(bloomFilter, name).blocked

---------------------------------------------------------------------------
(* The round-robin client: src/internal/slog_adapter.go *)

\* atomic.AddUint32(&counter, 1): the sum modulo 2^32
AddUint32(c) ==
    IF c.lo + 1 < Base THEN [c EXCEPT !.lo = @ + 1]
    ELSE IF c.hi + 1 < Base THEN [hi |-> c.hi + 1, lo |-> 0]
    ELSE Zero32

\* The value of a two-limb number modulo n
ModN(c, n) == (c.hi * (Base % n) + c.lo) % n

\* Go's a % b for b > 0: the remainder has the sign of a
GoRem(a, b) == IF a >= 0 THEN a % b ELSE 0 - ((0 - a) % b)

\* (int(n)-1) % len(upstreams), int being 64 bits wide
NextIndex(n, len) ==
    IF n = Zero32 THEN GoRem(0 - 1, len) ELSE (ModN(n, len) + len - 1) % len

\* A client built by NewRoundRobinClient with 1..MaxUpstreams upstreams, either
\* new or after 2^32 - w Exchange calls (w in 1..MaxNearWrap)
InitRoundRobin ==
    /\ \E len \in 1..MaxUpstreams :
          \E made \in {Zero32} \cup {[hi |-> Base - 1, lo |-> Base - w] : w \in 1..MaxNearWrap} :
              client = [RRIdle EXCEPT !.upstreams = len, !.counter = made, !.start = made]
    /\ bloomFilter = {} /\ loader = LoaderIdle /\ mutex = MutexFree
    /\ readers = [r \in ReaderIds |-> ReaderIdle]
    /\ cache = <<>> /\ clock = 0 /\ last = NoRequest
    /\ ss = SSIdle
    /\ MetricsIdle
    /\ CronIdle

\* RoundRobinClient.Exchange: getNextUpstream, then the exchange with it; an
\* index outside the slice panics
Exchange ==
    /\ ~client.panicked /\ Len(client.selected) < MaxCalls
    /\ LET n == AddUint32(client.counter)
           i == NextIndex(n, client.upstreams)
       IN  client' = IF i < 0 \/ i >= client.upstreams
                     THEN [client EXCEPT !.counter = n, !.panicked = TRUE]
                     ELSE [client EXCEPT !.counter = n, !.selected = Append(@, i)]
    /\ UNCHANGED <<bloomFilter, blockListVars, dispatcherVars, ss, metricsVars, cronVars>>

NextRoundRobin == Exchange

SpecRoundRobin == InitRoundRobin /\ [][NextRoundRobin]_vars

\* How often upstream i was selected by the calls listed
TimesSelected(i) == Cardinality({j \in 1..Len(client.selected) : client.selected[j] = i})

\* C18: call number c uses upstreams[(c-1) mod N] (no call fails to select
\* one), so over m calls every upstream is selected floor(m/N) or ceil(m/N) times.
C18_RoundRobinFair ==
    LET N == client.upstreams
        m == Len(client.selected)
    IN  /\ ~client.panicked
        /\ \A j \in 1..m : client.selected[j] = (ModN(client.start, N) + j - 1) % N
        /\ \A i \in 0..(N - 1) :
              \/ TimesSelected(i) = m \div N
              \/ TimesSelected(i) = (m + N - 1) \div N

\* Exchange run by goroutine g, first half: getNextUpstream. The atomic add
\* hands g its own value of the counter; the index is computed from it.
ExchangeBegin(g) ==
    /\ ~client.panicked /\ client.calls[g].pc = "idle"
    /\ Len(client.obtained) < MaxConcurrentCalls
    /\ LET n == AddUint32(client.counter)
           i == NextIndex(n, client.upstreams)
       IN  client' = IF i < 0 \/ i >= client.upstreams
                     THEN [client EXCEPT !.counter = n, !.obtained = Append(@, n),
                                         !.panicked = TRUE]
                     ELSE [client EXCEPT !.counter = n, !.obtained = Append(@, n),
                                         !.calls[g] = [pc |-> "exchanging", upstream |-> i]]
    /\ UNCHANGED <<bloomFilter, blockListVars, dispatcherVars, ss, metricsVars, cronVars>>

\* Second half: client.Exchange with the selected upstream returns
ExchangeEnd(g) ==
    /\ ~client.panicked /\ client.calls[g].pc = "exchanging"
    /\ client' = [client EXCEPT !.selected = Append(@, client.calls[g].upstream),
                                !.calls[g] = CallIdle]
    /\ UNCHANGED <<bloomFilter, blockListVars, dispatcherVars, ss, metricsVars, cronVars>>

NextRoundRobinConcurrent ==
    \E g \in CallerIds : ExchangeBegin(g) \/ ExchangeEnd(g)

\* Exchange called from several goroutines at once
SpecRoundRobinConcurrent == InitRoundRobin /\ [][NextRoundRobinConcurrent]_vars

\* a < b for two-limb numbers
Less32(a, b) == a.hi < b.hi \/ (a.hi = b.hi /\ a.lo < b.lo)

\* C31: under any interleaving of concurrent Exchange calls each call obtains a
\* value of the counter of its own, the counter only increases (by one per
\* call), and once the m calls made have completed every upstream has been
\* selected floor(m/N) or ceil(m/N) times.
C31_ConcurrentCallsFair ==
    LET N == client.upstreams
        m == Len(client.selected)
        got == client.obtained
    IN  /\ \A j, k \in 1..Len(got) : j # k => got[j] # got[k]
        /\ \A j \in 1..Len(got) :
              /\ got[j] = AddUint32(IF j = 1 THEN client.start ELSE got[j - 1])
              /\ Less32(IF j = 1 THEN client.start ELSE got[j - 1], got[j])
        /\ ~client.panicked
        /\ (\A g \in CallerIds : client.calls[g].pc = "idle")
           => \A i \in 0..(N - 1) :
                 \/ TimesSelected(i) = m \div N
                 \/ TimesSelected(i) = (m + N - 1) \div N

\* The same for a client that has not come near 2^32 calls
C31_FairBelowWrap ==
    client.start = Zero32 => C31_ConcurrentCallsFair

\* Two calls in progress at once, on a client that has not come near 2^32 calls
C31_WitnessBelowWrap ==
    /\ client.start = Zero32 /\ client.upstreams = 2
    /\ \A g \in CallerIds : client.calls[g].pc = "exchanging"
    /\ Len(client.selected) = 3

\* C34: for every value of the counter, the call on which it wraps from 2^32-1
\* to 0 included, getNextUpstream computes an index in 0..N-1: no call indexes
\* outside the list.
C34_IndexInRange ==
    /\ ~client.panicked
    /\ \A j \in 1..Len(client.selected) :
          client.selected[j] >= 0 /\ client.selected[j] < client.upstreams

---------------------------------------------------------------------------
(* The Space-Saving tracker: src/internal/metrics/space_saver.go *)

\* The keys added; "" is also the value of minKey that stands for "unknown"
SSKeys == {"", "a", "b"}

\* entries is the set of the map's values, one SpaceSaverEntry per tracked key
Tracked(entries) == {e.Key : e \in entries}
EntryOf(entries, key) == CHOOSE e \in entries : e.Key = key

\* recomputeMinLocked: the values minKey may get; among the entries of least
\* Count the one the map iteration meets first, in no fixed order
recomputeMinLocked(entries) ==
    IF entries = {} THEN {""}
    ELSE {e.Key : e \in {x \in entries : \A y \in entries : x.Count <= y.Count}}

\* Case 1 leaving the cached minimum as it is
addTrackedNoRecompute(s, key) ==
    LET e == EntryOf(s.entries, key)
        entries == (s.entries \ {e}) \cup {[e EXCEPT !.Count = @ + 1]}
    IN  {[s EXCEPT !.entries = entries]}

\* Add, case 1: the key is tracked
addTracked(s, key) ==
    LET e == EntryOf(s.entries, key)
        entries == (s.entries \ {e}) \cup {[e EXCEPT !.Count = @ + 1]}
    IN  IF s.minKey = key
        THEN {[s EXCEPT !.entries = entries, !.minKey = m] : m \in recomputeMinLocked(entries)}
        ELSE {[s EXCEPT !.entries = entries]}

\* Add, case 2: there is room
addRoom(s, key) ==
    LET entries == s.entries \cup {[Key |-> key, Count |-> 1, Error |-> 0]}
    IN  {[s EXCEPT !.entries = entries,
                   !.minKey = IF s.minKey \notin Tracked(entries)
                                 \/ EntryOf(entries, s.minKey).Count > 1
                              THEN key ELSE @]}

\* Case 3 making room by removing any entry
addReplaceAny(s, key) ==
    UNION {LET minEntry == EntryOf(s.entries, mk)
               entries == (s.entries \ {minEntry})
                          \cup {[Key |-> key, Count |-> minEntry.Count + 1,
                                 Error |-> minEntry.Count]}
           IN  {[s EXCEPT !.entries = entries, !.minKey = m] : m \in recomputeMinLocked(entries)}
           : mk \in Tracked(s.entries)}

\* Add, case 3: full; the entry of least Count makes room
addReplace(s, key) ==
    UNION {LET minEntry == EntryOf(s.entries, mk)
               entries == (s.entries \ {minEntry})
                          \cup {[Key |-> key, Count |-> minEntry.Count + 1,
                                 Error |-> minEntry.Count]}
           IN  {[s EXCEPT !.entries = entries, !.minKey = m] : m \in recomputeMinLocked(entries)}
           : mk \in IF s.minKey \in Tracked(s.entries) THEN {s.minKey}
                    ELSE recomputeMinLocked(s.entries)}

\* Case 3 keeping the entry of least Count
addReplaceKeepMin(s, key) ==
    LET entries == s.entries \cup {[Key |-> key, Count |-> 1, Error |-> 0]}
    IN  {[s EXCEPT !.entries = entries, !.minKey = m] : m \in recomputeMinLocked(entries)}

\* Case 3 starting the new entry from a Count of 1
addReplaceFresh(s, key) ==
    UNION {LET minEntry == EntryOf(s.entries, mk)
               entries == (s.entries \ {minEntry})
                          \cup {[Key |-> key, Count |-> 1, Error |-> 0]}
           IN  {[s EXCEPT !.entries = entries, !.minKey = m] : m \in recomputeMinLocked(entries)}
           : mk \in IF s.minKey \in Tracked(s.entries) THEN {s.minKey}
                    ELSE recomputeMinLocked(s.entries)}

\* Add that never removes an entry
AddKeepMin(s, key) ==
    IF key \in Tracked(s.entries) THEN addTracked(s, key)
    ELSE IF Cardinality(s.entries) < s.k THEN addRoom(s, key)
    ELSE addReplaceKeepMin(s, key)

\* Add that forgets the Count of the entry it replaces
AddFresh(s, key) ==
    IF key \in Tracked(s.entries) THEN addTracked(s, key)
    ELSE IF Cardinality(s.entries) < s.k THEN addRoom(s, key)
    ELSE addReplaceFresh(s, key)

\* SpaceSaver.Add: the states it may leave the tracker in
Add(s, key) ==
    IF key \in Tracked(s.entries) THEN addTracked(s, key)
    ELSE IF Cardinality(s.entries) < s.k THEN addRoom(s, key)
    ELSE addReplace(s, key)

\* NewSpaceSaver(k)
InitSpaceSaver ==
    /\ \E k \in 1..MaxCapacity :
          ss = [k |-> k, entries |-> {}, minKey |-> "", truth |-> [key \in SSKeys |-> 0],
                adds |-> 0]
    /\ bloomFilter = {} /\ loader = LoaderIdle /\ mutex = MutexFree
    /\ readers = [r \in ReaderIds |-> ReaderIdle]
    /\ cache = <<>> /\ clock = 0 /\ last = NoRequest
    /\ client = RRIdle
    /\ MetricsIdle
    /\ CronIdle

\* One call of SpaceSaver.Add (under its mutex); truth counts the calls per key
SpaceSaverAdd ==
    \E key \in SSKeys :
        /\ ss.adds < MaxAdds
        /\ \E s \in Add(ss, key) :
              ss' = [s EXCEPT !.truth[key] = @ + 1, !.adds = @ + 1]
        /\ UNCHANGED <<bloomFilter, blockListVars, dispatcherVars, client, metricsVars, cronVars>>

NextSpaceSaver == SpaceSaverAdd

SpecSpaceSaver == InitSpaceSaver /\ [][NextSpaceSaver]_vars

\* The distinct keys added so far
DistinctAdded == {key \in SSKeys : ss.truth[key] > 0}

Min(a, b) == IF a <= b THEN a ELSE b

\* C19: the number of tracked keys is min(k, number of distinct keys added),
\* one entry per key.
C19_TrackedKeys ==
    /\ Cardinality(ss.entries) = Min(ss.k, Cardinality(DistinctAdded))
    /\ Cardinality(Tracked(ss.entries)) = Cardinality(ss.entries)
    /\ Cardinality(ss.entries) <= ss.k

\* More distinct keys added than the tracker has room for
C19_Witness ==
    /\ Cardinality(DistinctAdded) > ss.k
    /\ Cardinality(ss.entries) = ss.k

\* C20: every tracked entry has Error >= 0, Count >= the number of Add calls for
\* its key, and Count - Error <= that number.
C20_CountBounds ==
    \A e \in ss.entries :
        /\ e.Error >= 0
        /\ e.Count >= ss.truth[e.Key]
        /\ e.Count - e.Error <= ss.truth[e.Key]

\* A key that was replaced and came back: its entry over-estimates
C20_Witness ==
    \E e \in ss.entries :
        /\ e.Error > 0
        /\ e.Count > ss.truth[e.Key]
        /\ e.Count - e.Error < ss.truth[e.Key]

\* C27: Add of an untracked key to a full tracker removes exactly one entry, one
\* of least Count, and inserts the key with Count = that Count + 1 and Error =
\* that Count; the other entries stay as they are.
C27_ReplacesMinimum ==
    [][\A key \in SSKeys :
          (/\ ss'.adds = ss.adds + 1 /\ ss'.truth[key] = ss.truth[key] + 1
           /\ key \notin Tracked(ss.entries)
           /\ Cardinality(ss.entries) = ss.k)
          => \E m \in ss.entries :
                /\ \A e \in ss.entries : m.Count <= e.Count
                /\ ss'.entries = (ss.entries \ {m})
                                 \cup {[Key |-> key, Count |-> m.Count + 1, Error |-> m.Count]}
      ]_vars

\* A tracker of two entries after a replacement: the new entry took over a Count
\* of 1 and the entry that stayed has a greater Count
C27_Witness ==
    /\ ss.k = 2 /\ Cardinality(ss.entries) = 2
    /\ \E e, x \in ss.entries :
          /\ e.Error = 1 /\ e.Count = 2
          /\ x.Error = 0 /\ x.Count > 2

\* The sum of Count over a set of entries
RECURSIVE SumCounts(_)
SumCounts(entries) ==
    IF entries = {} THEN 0
    ELSE LET e == CHOOSE x \in entries : TRUE
         IN  e.Count + SumCounts(entries \ {e})

\* C39: after any sequence of Add calls (k >= 1) the Counts of the tracked
\* entries add up to the number of Add calls made, and when the tracker is not
\* empty the cached minKey names a tracked entry of least Count.
C39_SumAndMinimum ==
    /\ SumCounts(ss.entries) = ss.adds
    /\ ss.entries # {}
       => /\ ss.minKey \in Tracked(ss.entries)
          /\ \A e \in ss.entries : EntryOf(ss.entries, ss.minKey).Count <= e.Count

\* A full tracker after a replacement, its entries of different Counts
C39_Witness ==
    /\ ss.k = 2 /\ Cardinality(ss.entries) = 2 /\ ss.adds = MaxAdds
    /\ \E e \in ss.entries : e.Error > 0
    /\ \E e \in ss.entries : e.Count > EntryOf(ss.entries, ss.minKey).Count

---------------------------------------------------------------------------
(* TopN and the stats callback: space_saver.go, dns_metrics.go *)

MaxTopN == 3           \* the n handed to TopN and the topK handed to the callback

\* The orders sort.Slice may leave the copied entries in: Count descending, entries
\* of equal Count in any order (the map is iterated in no fixed order and the
\* sort is not stable)
SortedByCount(entries) ==
    {p \in [1..Cardinality(entries) -> entries] :
        /\ \A i, j \in DOMAIN p : i # j => p[i] # p[j]
        /\ \A i, j \in DOMAIN p : i < j => p[i].Count >= p[j].Count}

\* TopN sorting by Count ascending
TopNAscending(entries, n) ==
    {SubSeq(p, 1, Min(n, Len(p))) :
        p \in {q \in [1..Cardinality(entries) -> entries] :
                 /\ \A i, j \in DOMAIN q : i # j => q[i] # q[j]
                 /\ \A i, j \in DOMAIN q : i < j => q[i].Count <= q[j].Count}}

\* SpaceSaver.TopN: the slices it may return
TopN(entries, n) == {SubSeq(p, 1, Min(n, Len(p))) : p \in SortedByCount(entries)}

\* The callback exporting Count
newSpaceSaverStatsCallbackCount(entries, topK) ==
    {[key \in {r[i].Key : i \in 1..Len(r)} |-> (CHOOSE e \in Range(r) : e.Key = key).Count]
        : r \in TopN(entries, topK)}

\* The function returned by newSpaceSaverStatsCallback(ss, topK): the maps a call
\* of it may return, results[entry.Key] = entry.Count - entry.Error over TopN(topK)
newSpaceSaverStatsCallback(entries, topK) ==
    {[key \in {r[i].Key : i \in 1..Len(r)} |->
         LET entry == CHOOSE e \in Range(r) : e.Key = key
         IN  entry.Count - entry.Error]
        : r \in TopN(entries, topK)}

\* A call of ss.TopN(n)
CallTopN ==
    \E n \in 0..MaxTopN :
        \E r \in TopN(ss.entries, n) :
            /\ scrape' = [op |-> "TopN", n |-> n, result |-> r, exported |-> <<>>,
                          at |-> ss.entries]
            /\ UNCHANGED <<bloomFilter, blockListVars, dispatcherVars, client, ss, mu, workers, sketch, cronVars>>

\* A call of the function returned by newSpaceSaverStatsCallback(ss, topK)
CallStatsCallback ==
    \E topK \in 0..MaxTopN :
        \E results \in newSpaceSaverStatsCallback(ss.entries, topK) :
            /\ scrape' = [op |-> "callback", n |-> topK, result |-> <<>>,
                          exported |-> results, at |-> ss.entries]
            /\ UNCHANGED <<bloomFilter, blockListVars, dispatcherVars, client, ss, mu, workers, sketch, cronVars>>

NextTopN == SpaceSaverAdd \/ CallTopN \/ CallStatsCallback

\* A tracker that is added to and read by TopN and by the callback
SpecTopN == InitSpaceSaver /\ [][NextTopN]_vars

\* The keys of the map the callback returned
Exported == DOMAIN scrape.exported

\* C22: the callback exports, for min(topK, tracked) entries of greatest Count
\* (the entries TopN(topK) returns), the entry's Count - Error under its key, and
\* nothing else; for an empty tracker it exports an empty map.
C22_ExportsLowerBound ==
    scrape.op = "callback"
    => /\ Exported \subseteq Tracked(scrape.at)
       /\ Cardinality(Exported) = Min(scrape.n, Cardinality(scrape.at))
       /\ \A e \in scrape.at :
             /\ e.Key \in Exported => scrape.exported[e.Key] = e.Count - e.Error
             /\ e.Key \notin Exported
                => \A x \in scrape.at : x.Key \in Exported => x.Count >= e.Count
       /\ scrape.at = {} => Exported = {}

\* The callback over a tracker that has replaced an entry, topK below its size
C22_Witness ==
    /\ scrape.op = "callback" /\ scrape.n = 1 /\ Cardinality(scrape.at) = 2
    /\ \E e \in scrape.at : e.Key \in Exported /\ e.Error > 0 /\ scrape.exported[e.Key] >= 1

\* What a TopN call returned, against the tracker it was called on
TopNResult ==
    /\ Len(scrape.result) = Min(scrape.n, Cardinality(scrape.at))
    /\ \A i \in 1..Len(scrape.result) : scrape.result[i] \in scrape.at
    /\ \A i, j \in 1..Len(scrape.result) :
          /\ i # j => scrape.result[i].Key # scrape.result[j].Key
          /\ i < j => scrape.result[i].Count >= scrape.result[j].Count
    /\ \A e \in scrape.at \ Range(scrape.result) :
          \A i \in 1..Len(scrape.result) : e.Count <= scrape.result[i].Count

\* C28: TopN(n) returns min(n, tracked) entries of the tracker (copies of them),
\* sorted by Count descending, none left out having a greater Count than one
\* returned, and the call leaves the tracker's entries and cached minimum as
\* they were.
C28_TopN ==
    [][(scrape' # scrape /\ scrape'.op = "TopN")
       => (TopNResult' /\ scrape'.at = ss.entries /\ ss' = ss)]_vars

\* TopN(1) on a tracker of two entries with different Counts
C28_Witness ==
    /\ scrape.op = "TopN" /\ scrape.n = 1 /\ Len(scrape.result) = 1
    /\ \E e \in scrape.at : e.Count < scrape.result[1].Count
    /\ scrape.at = ss.entries

---------------------------------------------------------------------------
(* The tracker under concurrency: Add called by several goroutines *)

\* The keys the concurrent Add calls record
ConcurrentKeys == {"a", "b"}

\* The Add calls begun and not yet counted in ss.adds
InProgress == Cardinality({w \in WorkerIds : workers[w].pc \in {"lock", "read", "write"}})

\* NewSpaceSaver(k), shared by the goroutines of WorkerIds
InitSpaceSaverConcurrent ==
    /\ \E k \in 1..MaxCapacity :
          ss = [k |-> k, entries |-> {}, minKey |-> "", truth |-> [key \in SSKeys |-> 0],
                adds |-> 0]
    /\ bloomFilter = {} /\ loader = LoaderIdle /\ mutex = MutexFree
    /\ readers = [r \in ReaderIds |-> ReaderIdle]
    /\ cache = <<>> /\ clock = 0 /\ last = NoRequest
    /\ client = RRIdle
    /\ MetricsIdle
    /\ CronIdle

\* A goroutine calls ss.Add(key)
AddBegin(w) ==
    \E key \in ConcurrentKeys :
        /\ workers[w].pc = "idle"
        /\ ss.adds + InProgress < MaxAdds
        /\ workers' = [workers EXCEPT ![w] = [WorkerIdle EXCEPT !.pc = "lock", !.key = key]]
        /\ UNCHANGED <<bloomFilter, blockListVars, dispatcherVars, client, ss, mu, scrape, sketch, cronVars>>

\* s.mu.Lock() taken although another goroutine holds the mutex
AddLockNoWait(w) ==
    /\ workers[w].pc = "lock"
    /\ mu' = w
    /\ workers' = [workers EXCEPT ![w].pc = "read"]
    /\ UNCHANGED <<bloomFilter, blockListVars, dispatcherVars, client, ss, scrape, sketch, cronVars>>

\* Add: s.mu.Lock(), which waits until no goroutine holds the mutex
AddLock(w) ==
    /\ workers[w].pc = "lock"
    /\ mu = 0
    /\ mu' = w
    /\ workers' = [workers EXCEPT ![w].pc = "read"]
    /\ UNCHANGED <<bloomFilter, blockListVars, dispatcherVars, client, ss, scrape, sketch, cronVars>>

\* Add: the reads of s.entries and s.minKey that select the case and its values
AddRead(w) ==
    /\ workers[w].pc = "read"
    /\ workers' = [workers EXCEPT ![w] =
                      [@ EXCEPT !.pc = "write", !.entries = ss.entries, !.minKey = ss.minKey]]
    /\ UNCHANGED <<bloomFilter, blockListVars, dispatcherVars, client, ss, mu, scrape, sketch, cronVars>>

\* Add: the stores of the case selected, computed from the values read
AddWrite(w) ==
    /\ workers[w].pc = "write"
    /\ \E s \in Add([ss EXCEPT !.entries = workers[w].entries, !.minKey = workers[w].minKey],
                    workers[w].key) :
          ss' = [s EXCEPT !.truth[workers[w].key] = @ + 1, !.adds = @ + 1]
    /\ workers' = [workers EXCEPT ![w].pc = "unlock"]
    /\ UNCHANGED <<bloomFilter, blockListVars, dispatcherVars, client, mu, scrape, sketch, cronVars>>

\* Add: the deferred s.mu.Unlock()
AddUnlock(w) ==
    /\ workers[w].pc = "unlock"
    /\ mu' = 0
    /\ workers' = [workers EXCEPT ![w] = WorkerIdle]
    /\ UNCHANGED <<bloomFilter, blockListVars, dispatcherVars, client, ss, scrape, sketch, cronVars>>

NextSpaceSaverConcurrent ==
    \E w \in WorkerIds :
        AddBegin(w) \/ AddLock(w) \/ AddRead(w) \/ AddWrite(w) \/ AddUnlock(w)

SpecSpaceSaverConcurrent == InitSpaceSaverConcurrent /\ [][NextSpaceSaverConcurrent]_vars

\* Every Add call begun has returned
Quiescent == \A w \in WorkerIds : workers[w].pc = "idle"

\* C21: when the distinct keys added do not exceed the capacity, then once the
\* concurrent Add calls have returned every key added is tracked with Count equal
\* to the number of Add calls made for it and Error 0, and nothing else is tracked.
C21_ConcurrentAddsExact ==
    (Quiescent /\ Cardinality(DistinctAdded) <= ss.k)
    => /\ Tracked(ss.entries) = DistinctAdded
       /\ \A e \in ss.entries : e.Count = ss.truth[e.Key] /\ e.Error = 0

\* Two keys, each added at least twice by the goroutines, every call having
\* returned
C21_Witness ==
    /\ Quiescent /\ ss.k = 2 /\ DistinctAdded = ConcurrentKeys
    /\ ss.adds >= 4
    /\ \A e \in ss.entries : e.Count >= 2

---------------------------------------------------------------------------
(* The unique-client sketch: updateClientCount and the dns_unique_clients gauge *)

\* The client addresses of the requests
ClientHosts == {"h1", "h2"}

\* NewDNSMetrics: a new sketch; the listeners and /metrics are started after it
InitSketch ==
    /\ sketch = SketchIdle
    /\ CronIdle
    /\ mu = 0 /\ workers = [w \in WorkerIds |-> WorkerIdle] /\ scrape = ScrapeIdle
    /\ bloomFilter = {} /\ loader = LoaderIdle /\ mutex = MutexFree
    /\ readers = [r \in ReaderIds |-> ReaderIdle]
    /\ cache = <<>> /\ clock = 0 /\ last = NoRequest
    /\ client = RRIdle /\ ss = SSIdle

\* Another goroutine is inside a call on the sketch
Racing(g) == \E o \in SketchGoroutines \ {g} : sketch.pc[o] # "idle"

\* updateClientCount: d.metrics.UniqueClients.Insert([]byte(host)) is entered; no
\* lock is taken
InsertBegin(h) ==
    \E host \in ClientHosts :
        /\ sketch.pc[h] = "idle"
        /\ sketch' = [sketch EXCEPT !.pc[h] = "Insert", !.host[h] = host]
        /\ UNCHANGED <<bloomFilter, blockListVars, dispatcherVars, client, ss, mu, workers,
                       scrape, cronVars>>

\* Insert returns. Alone in the sketch it has recorded the host; overlapping with
\* another call (a data race on the registers) it may also have recorded nothing
InsertEnd(h) ==
    /\ sketch.pc[h] = "Insert"
    /\ \E recorded \in (IF Racing(h) THEN BOOLEAN ELSE {TRUE}) :
          sketch' = [sketch EXCEPT !.pc[h] = "idle", !.host[h] = "",
                                   !.inserted = IF recorded THEN @ \cup {sketch.host[h]}
                                                ELSE @]
    /\ UNCHANGED <<bloomFilter, blockListVars, dispatcherVars, client, ss, mu, workers,
                   scrape, cronVars>>

\* The gauge function of dns_unique_clients: uniqueClients.Estimate() is entered;
\* no lock is taken
EstimateBegin ==
    /\ sketch.pc["metrics"] = "idle"
    /\ sketch' = [sketch EXCEPT !.pc["metrics"] = "Estimate"]
    /\ UNCHANGED <<bloomFilter, blockListVars, dispatcherVars, client, ss, mu, workers,
                   scrape, cronVars>>

\* Estimate returns. Alone in the sketch it returns the number of hosts recorded;
\* overlapping with an Insert it may return any number up to that
EstimateEnd ==
    /\ sketch.pc["metrics"] = "Estimate"
    /\ \E e \in (IF Racing("metrics") THEN 0..Cardinality(sketch.inserted)
                 ELSE {Cardinality(sketch.inserted)}) :
          sketch' = [sketch EXCEPT !.pc["metrics"] = "idle", !.estimate = e]
    /\ UNCHANGED <<bloomFilter, blockListVars, dispatcherVars, client, ss, mu, workers,
                   scrape, cronVars>>

NextSketch ==
    \/ \E h \in Handlers : InsertBegin(h) \/ InsertEnd(h)
    \/ EstimateBegin \/ EstimateEnd

SpecSketch == InitSketch /\ [][NextSketch]_vars

\* C26: at most one call, Insert or Estimate, executes on the sketch at any time.
C26_SketchExclusive ==
    Cardinality({g \in SketchGoroutines : sketch.pc[g] # "idle"}) <= 1

====
